---- MODULE Spec2Model ----
(***************************************************************************)
(* A model of templatetk: the abstract template syntax tree (ATST), the    *)
(* reference Interpreter (interpreter.py), identifier tracking             *)
(* (idtracking.py, fstate.py), the lowering to a host AST                  *)
(* (asttransform.py) together with the run of the lowered code, tuple      *)
(* unpacking (interpreter.py, bcinterp.py) and the block registry          *)
(* (runtime.py).                                                           *)
(***************************************************************************)
EXTENDS Integers, Sequences, FiniteSets, TLC

(***************************************************************************)
(* Finite maps (Python dicts) and small helpers.                           *)
(***************************************************************************)
EmptyMap == [k \in {} |-> k]

Put(f, k, v) == [z \in (DOMAIN f) \cup {k} |-> IF z = k THEN v ELSE f[z]]

Has(f, k) == k \in DOMAIN f

Last(s) == s[Len(s)]

Front(s) == SubSeq(s, 1, Len(s) - 1)

RECURSIVE SetToSeq(_)
SetToSeq(S) == IF S = {} THEN <<>>
               ELSE LET e == CHOOSE z \in S : TRUE
                    IN <<e>> \o SetToSeq(S \ {e})

(***************************************************************************)
(* Runtime values.  Every value is a record tagged with its type t; i is   *)
(* the number of an int or the index of a loop context, s the items of a   *)
(* list or generator, name the name of an undefined object, text the atoms *)
(* of a text or buffer, exc the exception a generator ends with.           *)
(***************************************************************************)
Value(t, i, s, name, text, exc) ==
    [t |-> t, i |-> i, s |-> s, name |-> name, text |-> text, exc |-> exc]

IntV(i) == Value("int", i, <<>>, "", <<>>, "ok")

ListV(s) == Value("list", 0, s, "", <<>>, "ok")

LoopV(i) == Value("loop", i, <<>>, "", <<>>, "ok")

NoneV == Value("none", 0, <<>>, "", <<>>, "ok")

\* config.undefined_variable(name): one undefined object per name
undefined_variable(name) == Value("undef", 0, <<>>, name, <<>>, "ok")

IsIterable(val) == val.t = "list"

\* Python truth of a value
Truthy(val) == CASE val.t = "int"  -> val.i # 0
                 [] val.t = "list" -> Len(val.s) > 0
                 [] val.t = "none" -> FALSE
                 [] OTHER          -> TRUE

\* The text of a value as one output chunk; texts are sequences of atoms and
\* concatenation of chunks is concatenation of sequences.
to_unicode(val) == CASE val.t = "int"   -> <<ToString(val.i)>>
                     [] val.t = "undef" -> <<"<", val.name, ">">>
                     [] val.t = "text"  -> val.text
                     [] OTHER           -> <<val.t>>

TextV(s) == Value("text", 0, <<>>, "", s, "ok")

\* A filter applied to a text: an injective wrapping of the text
call_filter(text) == TextV(<<"filter(">> \o text \o <<")">>)

(***************************************************************************)
(* The ATST (nodes.py).  Expressions are Const and Name (context load);    *)
(* assignment targets are Name (context store) and Tuple; statements are   *)
(* records with the fields of all statement kinds.                         *)
(***************************************************************************)
Const(val) == [e |-> "Const", name |-> "", v |-> val]

Name(n) == [e |-> "Name", name |-> n, v |-> NoneV]

NameT(n) == [tt |-> "Name", name |-> n, items |-> <<>>]

TupleT(items) == [tt |-> "Tuple", name |-> "", items |-> items]

NoTarget == [tt |-> "None", name |-> "", items |-> <<>>]

NoExpr == Const(NoneV)

\* Function(Const(name), args, defaults, body), as the tracker, both backends
\* and the test cases use it (node.name); args are the names of the
\* parameters, defaults expressions
Function(name, args, defaults, body) ==
    [e |-> "Function", name |-> name, v |-> NoneV, args |-> args,
     defaults |-> defaults, body |-> body]

Stmt(kind, target, expr, body, else_, name) ==
    [k |-> kind, target |-> target, expr |-> expr, body |-> body,
     else_ |-> else_, name |-> name, ignore_missing |-> FALSE]

Output(expr) == Stmt("Output", NoTarget, expr, <<>>, <<>>, "")

Assign(target, expr) == Stmt("Assign", target, expr, <<>>, <<>>, "")

If(test, body, else_) == Stmt("If", NoTarget, test, body, else_, "")

For(target, iter, body, else_) == Stmt("For", target, iter, body, else_, "")

Scope(body) == Stmt("Scope", NoTarget, NoExpr, body, <<>>, "")

FilterBlock(body) == Stmt("FilterBlock", NoTarget, NoExpr, body, <<>>, "uppercase")

Block(name, body) == Stmt("Block", NoTarget, NoExpr, body, <<>>, name)

\* Extends(Const(template_name))
Extends(template_name) ==
    Stmt("Extends", NoTarget, NoExpr, <<>>, <<>>, template_name)

\* Include(Const(template_name), with_context, ignore_missing)
Include(template_name, ignore_missing) ==
    [Stmt("Include", NoTarget, NoExpr, <<>>, <<>>, template_name)
        EXCEPT !.ignore_missing = ignore_missing]

Break == Stmt("Break", NoTarget, NoExpr, <<>>, <<>>, "")

Continue == Stmt("Continue", NoTarget, NoExpr, <<>>, <<>>, "")

(***************************************************************************)
(* Config (config.py): the unpacking policy, the loop accessor and the     *)
(* templates get_template can load (none by default).                      *)
(***************************************************************************)
forloop_accessor == "loop"

Config(strict, noniter) ==
    [strict_tuple_unpacking |-> strict, allow_noniter_unpacking |-> noniter,
     forloop_parent_access |-> TRUE, templates |-> EmptyMap,
     namespaces |-> EmptyMap]

\* the CustomConfig of make_inheritance_config: get_template loads from a
\* mapping of names to templates
make_inheritance_config(templates) ==
    [Config(FALSE, FALSE) EXCEPT !.templates = templates]

(***************************************************************************)
(* BasicInterpreterState (interpreter.py).  context is the stack of        *)
(* mappings, the caller's mapping at the bottom; toplevel is the position  *)
(* of the frame pushed by the constructor (frames are compared by          *)
(* identity in the code; a frame never moves in the stack).  exports and   *)
(* blocks belong to the RuntimeInfo shared by the states of one render.    *)
(* out is the text yielded so far, sig the exception in flight ("ok" when  *)
(* none).  The counters record which parts of For statements ran: forRuns  *)
(* the loops started, emptyRuns those with an else_ body whose iterable    *)
(* yielded no item, bodyRuns the body runs, elseRuns the else_ runs; ran   *)
(* lists the block executors invoked, each by the body it runs.            *)
(***************************************************************************)
push_frame(st) == [st EXCEPT !.context = Append(@, EmptyMap)]

pop_frame(st) == [st EXCEPT !.context = Front(@)]

\* a state built without the constructor's push_frame: the supplied mapping
\* is the only frame, and the top level
BasicInterpreterState_no_push(vars_, blocks) ==
    [context |-> <<vars_>>, toplevel |-> 1, exports |-> EmptyMap,
     blocks |-> blocks, out |-> <<>>, sig |-> "ok",
     forRuns |-> 0, emptyRuns |-> 0, bodyRuns |-> 0, elseRuns |-> 0,
     ran |-> <<>>]

BasicInterpreterState(vars_, blocks) ==
    [context |-> <<vars_, EmptyMap>>, toplevel |-> 2, exports |-> EmptyMap,
     blocks |-> blocks, out |-> <<>>, sig |-> "ok",
     forRuns |-> 0, emptyRuns |-> 0, bodyRuns |-> 0, elseRuns |-> 0,
     ran |-> <<>>]

assign_var(st, key, value) ==
    LET n == Len(st.context)
        st1 == [st EXCEPT !.context[n] = Put(@, key, value)]
    IN IF n = st.toplevel
       THEN [st1 EXCEPT !.exports = Put(@, key, value)]
       ELSE st1

RECURSIVE getitem(_, _, _)
getitem(context, i, key) ==
    IF i = 0 THEN [found |-> FALSE, v |-> NoneV]
    ELSE IF Has(context[i], key) THEN [found |-> TRUE, v |-> context[i][key]]
    ELSE getitem(context, i - 1, key)

resolve_var(st, key) ==
    LET r == getitem(st.context, Len(st.context), key)
    IN IF r.found THEN r.v ELSE undefined_variable(key)

Raise(st, exc) == [st EXCEPT !.sig = exc]

RECURSIVE assign_to_state(_, _, _, _)
RECURSIVE assign_items(_, _, _, _, _)
\* the loop "for subnode, item_val in izip(node.items, value)"
assign_items(items, values, i, st, config) ==
    IF i > Len(items) \/ i > Len(values) \/ st.sig # "ok" THEN st
    ELSE assign_items(items, values, i + 1,
                      assign_to_state(items[i], values[i], st, config), config)

\* _assign_tuple without the length test of strict_tuple_unpacking
_assign_tuple_unchecked(node, value, st, config) ==
    IF ~IsIterable(value)
    THEN IF ~config.allow_noniter_unpacking THEN Raise(st, "TypeError") ELSE st
    ELSE assign_items(node.items, value.s, 1, st, config)

_assign_tuple(node, value, st, config) ==
    IF ~IsIterable(value)
    THEN IF ~config.allow_noniter_unpacking THEN Raise(st, "TypeError") ELSE st
    ELSE IF config.strict_tuple_unpacking /\ Len(value.s) # Len(node.items)
    THEN Raise(st, "ValueError")
    ELSE assign_items(node.items, value.s, 1, st, config)

assign_to_state(node, value, st, config) ==
    IF node.tt = "Name" THEN assign_var(st, node.name, value)
    ELSE _assign_tuple(node, value, st, config)

(***************************************************************************)
(* Interpreter (interpreter.py).  A visitor returns the state after the    *)
(* statement: the yielded chunks appended to out, or an exception in sig.  *)
(***************************************************************************)
visit_Expr(node, st) ==
    IF node.e = "Const" THEN node.v ELSE resolve_var(st, node.name)

\* RuntimeInfo.evaluate_block looked up through the interpreter state: the
\* executor chosen for (name, level), or the exception of the lookup
block_lookup(blocks, name, level) ==
    IF ~Has(blocks, name) THEN [exc |-> "BlockNotFoundException", body |-> <<>>]
    ELSE LET chain == blocks[name]
             n == Len(chain)
             \* Python list index level - 1; a negative index counts from the end
             idx == IF level - 1 >= 0 THEN level ELSE n + level
         IN IF idx >= 1 /\ idx <= n THEN [exc |-> "ok", body |-> chain[idx]]
            ELSE [exc |-> "BlockLevelOverflowException", body |-> <<>>]

RECURSIVE visit(_, _, _)
RECURSIVE execute(_, _, _)
RECURSIVE visit_block(_, _, _, _)
RECURSIVE loop_For(_, _, _, _, _, _)

visit_block(nodes, i, st, config) ==
    IF i > Len(nodes) \/ st.sig # "ok" THEN st
    ELSE visit_block(nodes, i + 1, visit(nodes[i], st, config), config)

visit_Output(node, st) ==
    [st EXCEPT !.out = @ \o to_unicode(visit_Expr(node.expr, st))]

visit_Assign(node, st, config) ==
    assign_to_state(node.target, visit_Expr(node.expr, st), st, config)

\* the frame is pushed after the test is evaluated and popped only when the
\* body ends without an exception (no try/finally)
visit_If(node, st, config) ==
    LET test == visit_Expr(node.expr, st)
        chosen == IF Truthy(test) THEN node.body ELSE node.else_
        r == visit_block(chosen, 1, push_frame(st), config)
    IN IF r.sig = "ok" THEN pop_frame(r) ELSE r

\* the part of visit_For after the loop: pop the loop frame, then the else_
\* body in a frame of its own when no item was seen
\* the end of visit_For with an else_ body that ignores "iterated"
after_For_always(node, st, iterated, config) ==
    LET st1 == pop_frame(st)
    IN IF node.else_ # <<>>
       THEN LET r == visit_block(node.else_, 1,
                        [push_frame(st1) EXCEPT !.elseRuns = @ + 1], config)
            IN IF r.sig = "ok" THEN pop_frame(r) ELSE r
       ELSE st1

after_For(node, st, iterated, config) ==
    LET st1 == pop_frame(st)
    IN IF ~iterated /\ node.else_ # <<>>
       THEN LET r == visit_block(node.else_, 1,
                        [push_frame(st1) EXCEPT !.elseRuns = @ + 1], config)
            IN IF r.sig = "ok" THEN pop_frame(r) ELSE r
       ELSE st1

\* one iteration of the loop of visit_For: bind the accessor and the
\* target in the loop frame, then run the body
iter_For(node, item, i, st, config) ==
    LET st1 == assign_var(st, forloop_accessor, LoopV(i - 1))
        st2 == assign_to_state(node.target, item, st1, config)
    IN IF st2.sig # "ok" THEN st2
       ELSE visit_block(node.body, 1, [st2 EXCEPT !.bodyRuns = @ + 1], config)

\* a loop in which a Break only ends the iteration
loop_For_through(node, items, i, st, iterated, config) ==
    IF i > Len(items) THEN after_For(node, st, iterated, config)
    ELSE LET r == iter_For(node, items[i], i, st, config)
         IN CASE r.sig \in {"ok", "ContinueLoop", "BreakLoop"} ->
                     loop_For(node, items, i + 1, [r EXCEPT !.sig = "ok"],
                              TRUE, config)
              [] OTHER -> r

loop_For(node, items, i, st, iterated, config) ==
    IF i > Len(items) THEN after_For(node, st, iterated, config)
    ELSE LET r == iter_For(node, items[i], i, st, config)
         IN CASE r.sig \in {"ok", "ContinueLoop"} ->
                     loop_For(node, items, i + 1, [r EXCEPT !.sig = "ok"],
                              TRUE, config)
              [] r.sig = "BreakLoop" ->
                     after_For(node, [r EXCEPT !.sig = "ok"], TRUE, config)
              [] OTHER -> r

visit_For(node, st, config) ==
    LET iterator == visit_Expr(node.expr, st)
        st1 == push_frame(st)
    IN IF ~IsIterable(iterator) THEN Raise(st1, "TypeError")
       ELSE loop_For(node, iterator.s, 1,
                     [st1 EXCEPT !.forRuns = @ + 1,
                                 !.emptyRuns =
                                     IF iterator.s = <<>> /\ node.else_ # <<>>
                                     THEN @ + 1 ELSE @],
                     FALSE, config)

\* "with state.frame()": the frame is popped also when the body raises
visit_Scope(node, st, config) ==
    LET r == visit_block(node.body, 1, push_frame(st), config)
    IN pop_frame(r)

\* the chunks of the body are joined and handed to the filter; when the
\* body raises nothing of it is yielded
visit_FilterBlock(node, st, config) ==
    LET r == visit_block(node.body, 1, [push_frame(st) EXCEPT !.out = <<>>],
                         config)
        r1 == pop_frame(r)
    IN IF r.sig = "ok"
       THEN [r1 EXCEPT !.out = st.out \o to_unicode(call_filter(r.out))]
       ELSE [r1 EXCEPT !.out = st.out]

\* the executor of make_block_executor runs the block body in a state of its
\* own, whose bottom mapping is the calling state and whose toplevel is the
\* frame its constructor pushes; the RuntimeInfo (exports, blocks) is shared
block_executor(body, st, config) ==
    LET bst == [st EXCEPT !.context = Append(@, EmptyMap),
                          !.toplevel = Len(st.context) + 1,
                          !.ran = Append(@, body)]
        r == visit_block(body, 1, bst, config)
    IN [r EXCEPT !.context = st.context, !.toplevel = st.toplevel]

\* InterpreterState.evaluate_block and RuntimeInfo.evaluate_block: look the
\* executor up and call it with the state as view
evaluate_block(st, name, level, config) ==
    LET found == block_lookup(st.blocks, name, level)
    IN IF found.exc # "ok" THEN Raise(st, found.exc)
       ELSE block_executor(found.body, st, config)

\* "with state.frame()": the frame is popped also when the block raises
visit_Block(node, st, config) ==
    pop_frame(evaluate_block(push_frame(st), node.name, 1, config))

\* RuntimeInfo.make_inheritance_info (clone): the dictionary of executors is
\* copied, the lists in it are shared with the original
make_info(blocks) == blocks

\* what the original RuntimeInfo holds after cloned was used: the lists of
\* its names, with what was appended to them through the clone
shared_lists(blocks, cloned) == [name \in DOMAIN blocks |-> cloned[name]]

\* RuntimeInfo.get_template with the get_template of the configuration of
\* make_inheritance_config: the template of that name, or TemplateNotFound
get_template(config, template_name) ==
    IF Has(config.templates, template_name)
    THEN [sig |-> "ok", v |-> Value("template", 0, <<>>, template_name, <<>>, "ok")]
    ELSE [sig |-> "TemplateNotFound", v |-> NoneV]

\* InterpreterState.get_or_select_template of one name
get_or_select_template(config, template_name) == get_template(config, template_name)

\* yield_from_template of the inheritance config: the template is executed
\* with info in a new state whose bottom mapping is the calling state
yield_from_template(template, info, st, config) ==
    LET pst == [st EXCEPT !.context = Append(@, EmptyMap),
                          !.toplevel = Len(st.context) + 1,
                          !.blocks = info]
        r == execute(template, pst, config)
    IN [r EXCEPT !.context = st.context, !.toplevel = st.toplevel,
                 !.blocks = shared_lists(st.blocks, r.blocks)]

\* an Extends that renders the parent and lets the template go on
visit_Extends_continue(node, st, config) ==
    IF get_template(config, node.name).sig # "ok" THEN Raise(st, "TemplateNotFound")
    ELSE yield_from_template(config.templates[node.name],
                             make_info(st.blocks), st, config)

\* visit_Extends: the parent template renders in place of the rest of the
\* template, which StopExecutionException skips
visit_Extends(node, st, config) ==
    IF get_template(config, node.name).sig # "ok" THEN Raise(st, "TemplateNotFound")
    ELSE LET r == yield_from_template(config.templates[node.name],
                                      make_info(st.blocks), st, config)
         IN IF r.sig = "ok" THEN Raise(r, "StopExecution") ELSE r

\* visit_Include: only the failure to find the template is caught, and
\* only when ignore_missing is set
visit_Include(node, st, config) ==
    IF get_or_select_template(config, node.name).sig = "TemplateNotFound"
    THEN IF node.ignore_missing THEN st ELSE Raise(st, "TemplateNotFound")
    ELSE yield_from_template(config.templates[node.name],
                             make_info(st.blocks), st, config)

visit(node, st, config) ==
    CASE node.k = "Output"      -> visit_Output(node, st)
      [] node.k = "Assign"      -> visit_Assign(node, st, config)
      [] node.k = "If"          -> visit_If(node, st, config)
      [] node.k = "For"         -> visit_For(node, st, config)
      [] node.k = "Scope"       -> visit_Scope(node, st, config)
      [] node.k = "FilterBlock" -> visit_FilterBlock(node, st, config)
      [] node.k = "Block"       -> visit_Block(node, st, config)
      [] node.k = "Extends"     -> visit_Extends(node, st, config)
      [] node.k = "Include"     -> visit_Include(node, st, config)
      [] node.k = "Break"       -> Raise(st, "BreakLoop")
      [] node.k = "Continue"    -> Raise(st, "ContinueLoop")

\* Node.find_all(Block): the blocks of a node list in document order
RECURSIVE find_all_Block(_)
find_all_Block(nodes) ==
    IF nodes = <<>> THEN <<>>
    ELSE LET n == Head(nodes)
         IN (IF n.k = "Block" THEN <<n>> ELSE <<>>)
            \o find_all_Block(n.body) \o find_all_Block(n.else_)
            \o find_all_Block(Tail(nodes))

\* a registration that puts the executor in front of the earlier ones
register_block_first(blocks, name, executor) ==
    IF Has(blocks, name) THEN [blocks EXCEPT ![name] = <<executor>> \o @]
    ELSE Put(blocks, name, <<executor>>)

\* RuntimeInfo.register_block: setdefault(name, []).append(executor)
register_block(blocks, name, executor) ==
    IF Has(blocks, name) THEN [blocks EXCEPT ![name] = Append(@, executor)]
    ELSE Put(blocks, name, <<executor>>)

RECURSIVE register_blocks(_, _)
register_blocks(blocks, found) ==
    IF found = <<>> THEN blocks
    ELSE register_blocks(register_block(blocks, Head(found).name, Head(found).body),
                         Tail(found))

\* visit_Template: register the template's blocks, then run its body
visit_Template(body, st, config) ==
    visit_block(body, 1,
                [st EXCEPT !.blocks = register_blocks(@, find_all_Block(body))],
                config)

\* Interpreter.execute: StopExecutionException ends the render, any other
\* internal exception is reported as an AssertionError
execute(body, st, config) ==
    LET r == visit_Template(body, st, config)
    IN CASE r.sig = "StopExecution" -> [r EXCEPT !.sig = "ok"]
         [] r.sig \in {"BreakLoop", "ContinueLoop"} -> Raise(r, "AssertionError")
         [] OTHER -> r

(***************************************************************************)
(* IdentManager (idtracking.py) and FrameState (fstate.py).  The frames of *)
(* one compilation live in a store: fs.frames is the sequence of frames    *)
(* (a frame is named by its position), fs.index the counter of the shared  *)
(* IdentManager, fs.err the first internal-consistency error raised.       *)
(* Generated identifiers: l_<name>_<suffix> and t<num>.                    *)
(***************************************************************************)
LocalId(name, suffix) == [p |-> "l", n |-> name, s |-> suffix]

TempId(num) == [p |-> "t", n |-> "", s |-> num]

NoId == [p |-> "", n |-> "", s |-> 0]

\* FrameState.__init__
FrameState(parent, scope, root) ==
    [parent |-> parent, scope |-> scope, root |-> root, buffer |-> NoId,
     local_identifiers |-> EmptyMap, from_outer_scope |-> {},
     referenced_identifiers |-> EmptyMap, required_aliases |-> EmptyMap,
     requires_lookup |-> EmptyMap, unassigned_until |-> EmptyMap,
     inner_functions |-> <<>>, inner_frames |-> <<>>, nodes |-> <<>>]

\* IdentManager.__init__ (index = 1) with the root frame of visit_Template
NewStore == [frames |-> <<FrameState(0, "soft", TRUE)>>, index |-> 1, err |-> "ok"]

\* FrameState.derive: the child is recorded as an inner frame of its parent
derive(fs, f, scope) ==
    LET child == Len(fs.frames) + 1
    IN [fs EXCEPT !.frames = Append([@ EXCEPT ![f].inner_frames = Append(@, child)],
                                    FrameState(f, scope, FALSE))]

Derived(fs) == Len(fs.frames)

\* IdentManager.encode with the default suffix
encode(name) == LocalId(name, 0)

\* IdentManager.override: encode(name, next_num())
override(fs, name) == LocalId(name, fs.index)

\* IdentManager.temporary: 't%d' % next_num()
temporary(fs) == TempId(fs.index)

next_num(fs) == [fs EXCEPT !.index = @ + 1]

\* a walk that also consults the frames recorded beside the start frame
\* (the inner frames of its parent) before it goes outwards
RECURSIVE iter_maps_with_siblings(_, _)
iter_maps_with_siblings(fs, ptr) ==
    IF ptr = 0 THEN <<>>
    ELSE LET parent == fs.frames[ptr].parent
             beside == IF parent = 0 THEN <<>>
                       ELSE SelectSeq(fs.frames[parent].inner_frames,
                                      LAMBDA g : g # ptr)
         IN IF fs.frames[ptr].scope = "hard" THEN <<ptr>>
            ELSE <<ptr>> \o beside \o iter_maps_with_siblings(fs, parent)

\* a walk that does not stop at a hard frame
RECURSIVE iter_maps_through_hard(_, _)
iter_maps_through_hard(fs, ptr) ==
    IF ptr = 0 THEN <<>>
    ELSE <<ptr>> \o iter_maps_through_hard(fs, fs.frames[ptr].parent)

\* IdentManager.iter_identifier_maps: the frames whose local_identifiers are
\* consulted, from start outwards, up to and including the first hard frame
RECURSIVE iter_identifier_maps(_, _)
iter_identifier_maps(fs, ptr) ==
    IF ptr = 0 THEN <<>>
    ELSE IF fs.frames[ptr].scope = "hard" THEN <<ptr>>
    ELSE <<ptr>> \o iter_identifier_maps(fs, fs.frames[ptr].parent)

\* the first frame of the chain that binds name, 0 when none does
RECURSIVE FirstBinding(_, _, _)
FirstBinding(fs, chain, name) ==
    IF chain = <<>> THEN 0
    ELSE IF Has(fs.frames[Head(chain)].local_identifiers, name) THEN Head(chain)
    ELSE FirstBinding(fs, Tail(chain), name)

\* the unassigned_until entry "from the start of the frame" (None)
FromStart == <<>>

\* a tracker that binds a name stored in an inner frame to the identifier of
\* the outer frame instead of an alias
visit_Name_shared(fs, f, name, ctx, node) ==
    LET g == FirstBinding(fs, iter_identifier_maps(fs, f), name)
        reused_local_id == g # 0
        from_outer_scope == g # 0 /\ g # f
        local_id == IF g # 0 THEN fs.frames[g].local_identifiers[name]
                    ELSE encode(name)
        fr == fs.frames[f]
        fr2 == IF ctx # "load" \/ ~reused_local_id
               THEN [fr EXCEPT !.local_identifiers = Put(@, name, local_id),
                               !.unassigned_until =
                                   Put(@, name, IF ctx # "param" THEN node
                                                ELSE FromStart)]
               ELSE fr
        fr3 == IF ctx = "load" /\ ~reused_local_id
               THEN [fr2 EXCEPT !.requires_lookup = Put(@, local_id, name),
                                !.unassigned_until = Put(@, name, FromStart)]
               ELSE fr2
        fr4 == [fr3 EXCEPT !.referenced_identifiers = Put(@, name, local_id),
                           !.from_outer_scope =
                               IF from_outer_scope THEN @ \cup {name} ELSE @]
    IN [fs EXCEPT !.frames[f] = fr4]

\* a tracker that asks for no lookup of a name that is loaded unbound
visit_Name_no_lookup(fs, f, name, ctx, node) ==
    LET g == FirstBinding(fs, iter_identifier_maps(fs, f), name)
        reused_local_id == g # 0
        from_outer_scope == g # 0 /\ g # f
        aliased == from_outer_scope /\ ctx # "load"
        old == IF g # 0 THEN fs.frames[g].local_identifiers[name] ELSE NoId
        local_id == IF aliased THEN override(fs, name)
                    ELSE IF g # 0 THEN old
                    ELSE encode(name)
        fr == fs.frames[f]
        fr1 == IF aliased
               THEN [fr EXCEPT !.required_aliases = Put(@, local_id, old)]
               ELSE fr
        fr2 == IF ctx # "load" \/ ~reused_local_id
               THEN [fr1 EXCEPT !.local_identifiers = Put(@, name, local_id),
                                !.unassigned_until =
                                    Put(@, name, IF ctx # "param" THEN node
                                                 ELSE FromStart)]
               ELSE fr1
        fr4 == [fr2 EXCEPT !.referenced_identifiers = Put(@, name, local_id),
                           !.from_outer_scope =
                               IF from_outer_scope THEN @ \cup {name} ELSE @]
        fs1 == IF aliased THEN next_num(fs) ELSE fs
    IN [fs1 EXCEPT !.frames[f] = fr4]

\* a tracker that takes a new identifier for every store of a bound name,
\* also of a name the frame itself binds
visit_Name_rebind(fs, f, name, ctx, node) ==
    LET g == FirstBinding(fs, iter_identifier_maps(fs, f), name)
        reused_local_id == g # 0
        from_outer_scope == g # 0 /\ g # f
        aliased == g # 0 /\ ctx # "load"
        old == IF g # 0 THEN fs.frames[g].local_identifiers[name] ELSE NoId
        local_id == IF aliased THEN override(fs, name)
                    ELSE IF g # 0 THEN old
                    ELSE encode(name)
        fr == fs.frames[f]
        fr1 == IF aliased
               THEN [fr EXCEPT !.required_aliases = Put(@, local_id, old)]
               ELSE fr
        fr2 == IF ctx # "load" \/ ~reused_local_id
               THEN [fr1 EXCEPT !.local_identifiers = Put(@, name, local_id),
                                !.unassigned_until =
                                    Put(@, name, IF ctx # "param" THEN node
                                                 ELSE FromStart)]
               ELSE fr1
        fr3 == IF ctx = "load" /\ ~reused_local_id
               THEN [fr2 EXCEPT !.requires_lookup = Put(@, local_id, name),
                                !.unassigned_until = Put(@, name, FromStart)]
               ELSE fr2
        fr4 == [fr3 EXCEPT !.referenced_identifiers = Put(@, name, local_id),
                           !.from_outer_scope =
                               IF from_outer_scope THEN @ \cup {name} ELSE @]
        fs1 == IF aliased THEN next_num(fs) ELSE fs
    IN [fs1 EXCEPT !.frames[f] = fr4]

\* visit_Name, the bookkeeping of the frame once the identifier is chosen
visit_Name_frame(fr, name, ctx, node, reused_local_id, from_outer_scope, aliased,
                 old, local_id) ==
    LET fr1 == IF aliased
               THEN [fr EXCEPT !.required_aliases = Put(@, local_id, old)]
               ELSE fr
        fr2 == IF ctx # "load" \/ ~reused_local_id
               THEN [fr1 EXCEPT !.local_identifiers = Put(@, name, local_id),
                                !.unassigned_until =
                                    Put(@, name, IF ctx # "param" THEN node
                                                 ELSE FromStart)]
               ELSE fr1
        fr3 == IF ctx = "load" /\ ~reused_local_id
               THEN [fr2 EXCEPT !.requires_lookup = Put(@, local_id, name),
                                !.unassigned_until = Put(@, name, FromStart)]
               ELSE fr2
    IN [fr3 EXCEPT !.referenced_identifiers = Put(@, name, local_id),
                   !.from_outer_scope =
                       IF from_outer_scope THEN @ \cup {name} ELSE @]

\* visit_Name, the choice of the identifier: an alias (override) for a store
\* to a name of an outer frame, the identifier found, or encode(name)
visit_Name_bound(fs, f, name, ctx, node, g, aliased, old) ==
    [(IF aliased THEN next_num(fs) ELSE fs) EXCEPT !.frames[f] =
        visit_Name_frame(fs.frames[f], name, ctx, node, g # 0, g # 0 /\ g # f,
                         aliased, old,
                         IF aliased THEN override(fs, name)
                         ELSE IF g # 0 THEN old
                         ELSE encode(name))]

\* visit_Name once the frame g that binds the name is known (0 when none)
visit_Name_found(fs, f, name, ctx, node, g) ==
    visit_Name_bound(fs, f, name, ctx, node, g, g # 0 /\ g # f /\ ctx # "load",
                     IF g # 0 THEN fs.frames[g].local_identifiers[name] ELSE NoId)

\* IdentTracker.visit_Name for a Name(name, ctx) at place node of frame f
visit_Name(fs, f, name, ctx, node) ==
    visit_Name_found(fs, f, name, ctx, node,
                     FirstBinding(fs, iter_identifier_maps(fs, f), name))

\* the tracker on a Name or a Const
track_Leaf(fs, f, expr, node) ==
    IF expr.e = "Name" THEN visit_Name(fs, f, expr.name, "load", node) ELSE fs

\* IdentTracker.visit_Function: the name and the defaults are tracked in
\* the defining frame, the parameters and the body are not looked at
RECURSIVE track_defaults(_, _, _, _, _)
track_defaults(fs, f, defaults, i, node) ==
    IF i > Len(defaults) THEN fs
    ELSE track_defaults(track_Leaf(fs, f, defaults[i], node \o <<i>>), f, defaults,
                        i + 1, node)

\* the tracker on an expression
track_Expr(fs, f, expr, node) ==
    IF expr.e = "Function" THEN track_defaults(fs, f, expr.defaults, 1, node)
    ELSE track_Leaf(fs, f, expr, node)

\* the tracker on an assignment target: a Name, or the items of a Tuple
RECURSIVE track_Target(_, _, _, _, _)
RECURSIVE track_Items(_, _, _, _, _, _)
track_Items(fs, f, items, i, ctx, node) ==
    IF i > Len(items) THEN fs
    ELSE track_Items(track_Target(fs, f, items[i], ctx, node \o <<i>>),
                     f, items, i + 1, ctx, node)

track_Target(fs, f, target, ctx, node) ==
    CASE target.tt = "Name"  -> visit_Name(fs, f, target.name, ctx, node)
      [] target.tt = "Tuple" -> track_Items(fs, f, target.items, 1, ctx, node)
      [] OTHER               -> fs

\* IdentTracker.visit: visit_For and visit_If look at the iterable and the
\* test only, visit_FilterBlock at the (absent) arguments; every other
\* statement is walked by NodeVisitor.generic_visit, child by child
RECURSIVE track(_, _, _, _)
RECURSIVE track_Children(_, _, _, _, _)
track_Children(fs, f, nodes, i, node) ==
    IF i > Len(nodes) THEN fs
    ELSE track_Children(track(fs, f, nodes[i], node \o <<i>>), f, nodes, i + 1, node)

track(fs, f, n, node) ==
    CASE n.k = "For"         -> track_Expr(fs, f, n.expr, node \o <<2>>)
      [] n.k = "If"          -> track_Expr(fs, f, n.expr, node \o <<1>>)
      [] n.k = "FilterBlock" -> fs
      [] n.k = "Output"      -> track_Expr(fs, f, n.expr, node \o <<1>>)
      [] n.k = "Assign"      ->
            track_Expr(track_Target(fs, f, n.target, "store", node \o <<1>>),
                       f, n.expr, node \o <<2>>)
      [] n.k \in {"Scope", "Block"} -> track_Children(fs, f, n.body, 1, node)
      [] OTHER               -> fs

\* FrameState.analyze_identfiers: track each node, then append it to nodes
RECURSIVE analyze_identfiers(_, _, _)
analyze_identfiers(fs, f, nodes) ==
    IF nodes = <<>> THEN fs
    ELSE LET k == Len(fs.frames[f].nodes) + 1
             fs1 == track(fs, f, Head(nodes), <<k>>)
         IN analyze_identfiers([fs1 EXCEPT !.frames[f].nodes = Append(@, Head(nodes))],
                               f, Tail(nodes))

\* analyze_identfiers([node.target]) of a For target, which is not a
\* statement: the target is tracked and appended to nodes
analyze_target(fs, f, target, ctx) ==
    LET k == Len(fs.frames[f].nodes) + 1
        fs1 == track_Target(fs, f, target, ctx, <<k>>)
    IN [fs1 EXCEPT !.frames[f].nodes = Append(@, target)]

\* FrameState.add_special_identifier: analyze_identfiers([Name(name, 'param')])
add_special_identifier(fs, f, name) == analyze_target(fs, f, NameT(name), "param")

\* FrameState.add_implicit_lookup: the enclosing frame reads name
add_implicit_lookup(fs, f, name) ==
    LET k == Len(fs.frames[f].nodes) + 1
        fs1 == visit_Name(fs, f, name, "load", <<k>>)
    IN [fs1 EXCEPT !.frames[f].nodes = Append(@, Name(name))]

\* FrameState.lookup_name: the identifier of a Name at lowering time
lookup_name(fs, f, name, ctx) ==
    LET g == FirstBinding(fs, iter_identifier_maps(fs, f), name)
    IN IF g = 0 \/ (ctx # "load" /\ g # f)
       THEN [id |-> NoId, err |-> "AssertionError"]
       ELSE [id |-> fs.frames[g].local_identifiers[name], err |-> "ok"]

\* the place of a node in FrameState.iter_frame_nodes: the nodes of the
\* frame in order, each followed by its direct children; <<k>> is node k of
\* the frame and <<k, j>> its child j, deeper nodes are not iterated
InFrameNodes(fs, f, node) ==
    /\ Len(node) \in {1, 2}
    /\ node[1] >= 1
    /\ node[1] <= Len(fs.frames[f].nodes)

Before(a, b) ==
    \/ a[1] < b[1]
    \/ a[1] = b[1] /\ Len(a) = 1 /\ Len(b) = 2
    \/ a[1] = b[1] /\ Len(a) = 2 /\ Len(b) = 2 /\ a[2] < b[2]

\* FrameState.var_unassigned for a name that has an unassigned_until entry:
\* false when the assigning node is None or is met before reference_node
var_unassigned(fs, f, name, reference_node) ==
    LET assigning_node == fs.frames[f].unassigned_until[name]
    IN IF assigning_node = FromStart THEN FALSE
       ELSE ~(/\ InFrameNodes(fs, f, assigning_node)
              /\ \/ ~InFrameNodes(fs, f, reference_node)
                 \/ Before(assigning_node, reference_node))

\* the names the maps of iter_identifier_maps hold
visible_names(fs, f) ==
    UNION {DOMAIN fs.frames[iter_identifier_maps(fs, f)[i]].local_identifiers :
              i \in DOMAIN iter_identifier_maps(fs, f)}

\* FrameState.iter_vars(reference_node): the innermost binding of every
\* visible name that is not unassigned at reference_node; unassigned_until
\* of the frame itself is indexed with every visible name (KeyError)
iter_vars(fs, f, reference_node) ==
    LET names == visible_names(fs, f)
        chain == iter_identifier_maps(fs, f)
    IN IF \E name \in names : ~Has(fs.frames[f].unassigned_until, name)
       THEN [err |-> "KeyError", vars |-> EmptyMap]
       ELSE [err |-> "ok",
             vars |-> [name \in {n \in names :
                                    ~var_unassigned(fs, f, n, reference_node)} |->
                          fs.frames[FirstBinding(fs, chain, name)]
                              .local_identifiers[name]]]

\* the node of the frame that a statement is (nodes are compared by
\* identity; equal statements of one frame stand for one node object)
node_of(fs, f, stmt) ==
    IF \E k \in DOMAIN fs.frames[f].nodes : fs.frames[f].nodes[k] = stmt
    THEN <<CHOOSE k \in DOMAIN fs.frames[f].nodes :
               /\ fs.frames[f].nodes[k] = stmt
               /\ \A j \in 1..(k - 1) : fs.frames[f].nodes[j] # stmt>>
    ELSE <<0>>

\* FrameState.iter_inner_referenced_vars: (local_id, name) for the names an
\* inner frame took from an outer scope, an alias replaced by its original
inner_referenced(fr) ==
    {<<IF Has(fr.required_aliases, fr.referenced_identifiers[name])
       THEN fr.required_aliases[fr.referenced_identifiers[name]]
       ELSE fr.referenced_identifiers[name], name>> :
        name \in (DOMAIN fr.referenced_identifiers) \cap fr.from_outer_scope}

iter_inner_referenced_vars(fs, f) ==
    UNION {inner_referenced(fs.frames[fs.frames[f].inner_frames[i]]) :
              i \in DOMAIN fs.frames[f].inner_frames}

\* FrameState.iter_required_lookups: dict(requires_lookup) updated with the
\* inner references; the result as a set of (local_id, name) pairs
iter_required_lookups(fs, f) ==
    LET own == fs.frames[f].requires_lookup
        inner == iter_inner_referenced_vars(fs, f)
        overridden == {pr[1] : pr \in inner}
    IN {<<id, own[id]>> : id \in (DOMAIN own) \ overridden} \cup inner

(***************************************************************************)
(* The Python AST the ASTTransformer produces (asttransform.py), reduced   *)
(* to the constructs the lowering of these statements emits.               *)
(***************************************************************************)
PyE(x, id, val, f, args, t) ==
    [x |-> x, id |-> id, val |-> val, f |-> f, args |-> args, t |-> t]

PyName(id) == PyE("Name", id, NoneV, "", <<>>, NoTarget)

PyConst(val) == PyE("Const", NoId, val, "", <<>>, NoTarget)

PyStr(s) == PyE("Str", NoId, NoneV, s, <<>>, NoTarget)

PyNone == PyE("None", NoId, NoneV, "", <<>>, NoTarget)

PyList == PyE("List", NoId, NoneV, "", <<>>, NoTarget)

PyYield(e) == PyE("Yield", NoId, NoneV, "", <<e>>, NoTarget)

\* buffer.append(e)
PyAppend(buffer, e) == PyE("Append", buffer, NoneV, "", <<e>>, NoTarget)

make_call(f, args) == PyE("Call", NoId, NoneV, f, args, NoTarget)

\* lenient_unpack_helper(config, iter_name, make_name_tuple(target))
make_unpack_call(iter_name, target) ==
    PyE("Call", iter_name, NoneV, "lenient_unpack_helper", <<>>, target)

PyT(id) == [tt |-> "Name", id |-> id, items |-> <<>>]

PyTupleT(items) == [tt |-> "Tuple", id |-> NoId, items |-> items]

PyStmt(op, target, value, body, orelse, mark) ==
    [op |-> op, target |-> target, value |-> value, body |-> body,
     orelse |-> orelse, mark |-> mark]

PyAssign(id, value) == PyStmt("Assign", PyT(id), value, <<>>, <<>>, "")

PyAssignT(target, value) == PyStmt("Assign", target, value, <<>>, <<>>, "")

PyExpr(value) == PyStmt("Expr", PyT(NoId), value, <<>>, <<>>, "")

\* mark distinguishes the If that guards a loop's else_ body ("loop_else")
PyIf(test, body, orelse, mark) == PyStmt("If", PyT(NoId), test, body, orelse, mark)

\* mark tells whether the For was lowered from a loop with an else_ body
PyFor(target, iter, body, mark) == PyStmt("For", target, iter, body, <<>>, mark)

\* TryExcept(body, [ExceptHandler(Name(mark), None, [Pass()])], orelse)
PyTry(body, mark, orelse) == PyStmt("Try", PyT(NoId), PyNone, body, orelse, mark)

\* FunctionDef(name, arguments(args), body, [])
PyFunctionDef(name, args, body) ==
    PyStmt("FunctionDef", PyT(name),
           PyE("arguments", NoId, NoneV, "", args, NoTarget), body, <<>>, "")

\* Return(value)
PyReturnValue(value) == PyStmt("Return", PyT(NoId), value, <<>>, <<>>, "")

\* Return(None)
PyReturn == PyStmt("Return", PyT(NoId), PyNone, <<>>, <<>>, "")

\* a local variable of the function that is not a generated identifier
PyLocal(n) == [p |-> "py", n |-> n, s |-> 0]

PyBreak == PyStmt("Break", PyT(NoId), PyNone, <<>>, <<>>, "")

PyContinue == PyStmt("Continue", PyT(NoId), PyNone, <<>>, <<>>, "")

(***************************************************************************)
(* ASTTransformer (asttransform.py).  A lowering returns the frame store   *)
(* after it and the code it produced.                                      *)
(***************************************************************************)
SetErr(fs, e) == IF fs.err = "ok" /\ e # "ok" THEN [fs EXCEPT !.err = e] ELSE fs

\* ASTTransformer.visit_Name / visit_Const on an expression
ast_visit_Expr(fs, f, expr) ==
    IF expr.e = "Const" THEN [fs |-> fs, e |-> PyConst(expr.v)]
    ELSE LET r == lookup_name(fs, f, expr.name, "load")
         IN [fs |-> SetErr(fs, r.err), e |-> PyName(r.id)]

\* ASTTransformer.visit_Name / visit_Tuple on a store target
RECURSIVE ast_visit_Target(_, _, _)
RECURSIVE ast_visit_Items(_, _, _, _)
ast_visit_Items(fs, f, items, i) ==
    IF i > Len(items) THEN [fs |-> fs, items |-> <<>>]
    ELSE LET h == ast_visit_Target(fs, f, items[i])
             r == ast_visit_Items(h.fs, f, items, i + 1)
         IN [fs |-> r.fs, items |-> <<h.t>> \o r.items]

ast_visit_Target(fs, f, target) ==
    IF target.tt = "Name"
    THEN LET r == lookup_name(fs, f, target.name, "store")
         IN [fs |-> SetErr(fs, r.err), t |-> PyT(r.id)]
    ELSE LET r == ast_visit_Items(fs, f, target.items, 1)
         IN [fs |-> r.fs, t |-> PyTupleT(r.items)]

\* ASTTransformer.write_output of a non-string expression
write_output(fs, f, expr) ==
    LET e == make_call("rtstate.info.finalize", <<expr>>)
    IN IF fs.frames[f].buffer = NoId THEN PyExpr(PyYield(e))
       ELSE PyExpr(PyAppend(fs.frames[f].buffer, e))

\* the pairs of a mapping from identifiers, in some iteration order
alias_pairs(fr) == {<<id, fr.required_aliases[id]>> : id \in DOMAIN fr.required_aliases}

RECURSIVE alias_code(_)
alias_code(pairs) ==
    IF pairs = <<>> THEN <<>>
    ELSE <<PyAssign(Head(pairs)[1], PyName(Head(pairs)[2]))>> \o alias_code(Tail(pairs))

RECURSIVE lookup_code(_)
lookup_code(pairs) ==
    IF pairs = <<>> THEN <<>>
    ELSE <<PyAssign(Head(pairs)[1],
                    make_call("rtstate.lookup_var", <<PyStr(Head(pairs)[2])>>))>>
         \o lookup_code(Tail(pairs))

dummy_yield == PyIf(PyConst(IntV(0)), <<PyExpr(PyYield(PyConst(IntV(0))))>>, <<>>, "")

\* before.extend(inner_func) for every entry of inner_functions: the
\* FunctionDef and the Assign of each deferred function
RECURSIVE inner_function_code(_)
inner_function_code(funcs) ==
    IF funcs = <<>> THEN <<>>
    ELSE Head(funcs) \o inner_function_code(Tail(funcs))

\* the list before of inject_scope_code: the aliases, the deferred inner
\* functions, the lookups
scope_code_before(fs, f) ==
    alias_code(SetToSeq(alias_pairs(fs.frames[f])))
    \o inner_function_code(fs.frames[f].inner_functions)
    \o lookup_code(SetToSeq(iter_required_lookups(fs, f)))

\* ASTTransformer.inject_scope_code: body[:] = before + body + dummy_yield
inject_scope_code(fs, f, body) ==
    scope_code_before(fs, f)
    \o body
    \o (IF fs.frames[f].buffer = NoId THEN <<dummy_yield>> ELSE <<>>)

\* ASTTransformer.make_assign
make_assign(fs, f, target, expr) ==
    LET t == ast_visit_Target(fs, f, target)
    IN [fs |-> t.fs,
        code |-> <<PyAssignT(t.t, expr)>>
                 \o (IF fs.frames[f].root /\ t.t.tt = "Name"
                     THEN <<PyExpr(make_call("rtstate.export_var",
                                             <<PyStr(target.name), PyName(t.t.id)>>))>>
                     ELSE <<>>)]

\* the result of a lowering: the frame store after it and its code
Res(fs, code) == [fs |-> fs, code |-> code]

\* fstate.derive() followed by analyze_identfiers(nodes) on the new frame,
\* which is then the last frame of the store
derive_analyze(fs, f, nodes) ==
    analyze_identfiers(derive(fs, f, "soft"), Len(fs.frames) + 1, nodes)

RECURSIVE ast_visit(_, _, _, _)
RECURSIVE ast_visit_block(_, _, _, _, _)

\* the code of a node followed by the code of the nodes after it
block_rest(h, f, nodes, i, config) ==
    LET r == ast_visit_block(h.fs, f, nodes, i + 1, config)
    IN Res(r.fs, h.code \o r.code)

\* ASTTransformer.visit_block: the code of the nodes, concatenated; an
\* exception raised by a visitor ends the lowering
ast_visit_block(fs, f, nodes, i, config) ==
    IF i > Len(nodes) \/ fs.err # "ok" THEN Res(fs, <<>>)
    ELSE block_rest(ast_visit(fs, f, nodes[i], config), f, nodes, i, config)

ast_visit_Output(fs, f, node) ==
    LET e == ast_visit_Expr(fs, f, node.expr)
    IN Res(e.fs, <<write_output(e.fs, f, e.e)>>)

\* the defaults of a Function, lowered in the defining frame
RECURSIVE ast_visit_defaults(_, _, _, _)
ast_visit_defaults(fs, f, defaults, i) ==
    IF i > Len(defaults) THEN [fs |-> fs, items |-> <<>>]
    ELSE LET h == ast_visit_Expr(fs, f, defaults[i])
             r == ast_visit_defaults(h.fs, f, defaults, i + 1)
         IN [fs |-> r.fs, items |-> <<h.e>> \o r.items]

\* func_fstate.analyze_identfiers(node.args): each Name(x, 'param')
RECURSIVE analyze_params(_, _, _, _)
analyze_params(fs, f, args, i) ==
    IF i > Len(args) THEN fs
    ELSE analyze_params(analyze_target(fs, f, NameT(args[i]), "param"), f, args, i + 1)

\* visit_Function, the tracking: buffer_name is a temporary, the function
\* frame takes the parameters and the body, internal_name is the next
\* temporary; the function frame is the last frame of the store
Function_track(fs, f, node) ==
    [next_num(analyze_identfiers(
                  analyze_params(derive(next_num(fs), f, "soft"), Len(fs.frames) + 1,
                                 node.args, 1),
                  Len(fs.frames) + 1, node.body))
        EXCEPT !.frames[Len(fs.frames) + 1].buffer = temporary(fs)]

\* visit_Function, the end: the FunctionDef and the Assign that wraps it are
\* deferred to the prologue of the defining frame; the expression is the
\* internal name (every parameter is bound in the function frame)
Function_result(rv, internal_name, func_fstate, f, node, defaults) ==
    [fs |-> [SetErr(rv.fs, defaults.fs.err) EXCEPT !.frames[f].inner_functions =
                Append(@,
                    <<PyFunctionDef(
                          internal_name,
                          [i \in DOMAIN node.args |->
                              PyName(rv.fs.frames[func_fstate]
                                         .local_identifiers[node.args[i]])],
                          inject_scope_code(
                              rv.fs, func_fstate,
                              <<PyAssign(rv.fs.frames[func_fstate].buffer, PyList)>>
                              \o rv.code)
                          \o <<PyReturnValue(
                                   make_call("rtstate.info.concat_template_data",
                                             <<PyName(rv.fs.frames[func_fstate]
                                                          .buffer)>>))>>),
                      PyAssign(internal_name,
                               make_call("rtstate.config.wrap_function",
                                         <<PyStr(node.name), PyName(internal_name),
                                           PyE("List", NoId, NoneV, "",
                                               defaults.items, NoTarget)>>))>>)],
     e |-> PyName(internal_name)]

\* visit_Function after the tracking
Function_body(fs, func_fstate, f, node, defaults, config) ==
    Function_result(ast_visit_block(fs, func_fstate, node.body, 1, config),
                    TempId(fs.index - 1), func_fstate, f, node, defaults)

\* ASTTransformer.visit_Function
ast_visit_Function(fs, f, node, config) ==
    Function_body(Function_track(fs, f, node), Len(fs.frames) + 1, f, node,
                  ast_visit_defaults(fs, f, node.defaults, 1), config)

\* visit_Assign after the value is lowered
Assign_result(value, f, node) == make_assign(value.fs, f, node.target, value.e)

ast_visit_Assign(fs, f, node, config) ==
    Assign_result(IF node.expr.e = "Function"
                  THEN ast_visit_Function(fs, f, node.expr, config)
                  ELSE ast_visit_Expr(fs, f, node.expr),
                  f, node)

\* visit_If, the end: the else_ code receives the prologue of the frame of
\* the body (condition_fstate), not of its own frame
If_result(test, body, condition_fstate, else_) ==
    Res(else_.fs,
        <<PyIf(test, body,
               inject_scope_code(else_.fs, condition_fstate, else_.code), "")>>)

\* visit_If after the body is lowered
If_else(test, body, f, node, config) ==
    IF node.else_ = <<>>
    THEN Res(body.fs,
             <<PyIf(test, inject_scope_code(body.fs, Derived(body.fs), body.code),
                    <<>>, "")>>)
    ELSE If_result(test,
                   inject_scope_code(body.fs, Derived(body.fs), body.code),
                   Derived(body.fs),
                   ast_visit_block(derive_analyze(body.fs, f, node.else_),
                                   Len(body.fs.frames) + 1, node.else_, 1, config))

\* visit_If after the test is lowered
If_body(test, f, node, config) ==
    If_else(test.e,
            ast_visit_block(derive_analyze(test.fs, f, node.body),
                            Len(test.fs.frames) + 1, node.body, 1, config),
            f, node, config)

ast_visit_If(fs, f, node, config) ==
    If_body(ast_visit_Expr(fs, f, node.expr), f, node, config)

\* fstate.add_implicit_lookup when config.forloop_parent_access
parent_access(fs, f, config) ==
    IF config.forloop_parent_access THEN add_implicit_lookup(fs, f, forloop_accessor)
    ELSE fs

\* visit_For, the tracking: the loop frame takes the target, the accessor
\* and the body, the enclosing frame the implicit lookup of the accessor,
\* the else frame the else_ body
For_track(fs, f, node, config) ==
    analyze_identfiers(
        derive(analyze_identfiers(
                   parent_access(
                       add_special_identifier(
                           analyze_target(derive(fs, f, "soft"), Len(fs.frames) + 1,
                                          node.target, "store"),
                           Len(fs.frames) + 1, forloop_accessor),
                       f, config),
                   Len(fs.frames) + 1, node.body),
               f, "soft"),
        Len(fs.frames) + 2, node.else_)

\* visit_For, the end: the else_ code, guarded by the flag, receives the
\* prologue of the loop frame, not of its own frame
For_else(did_not_iterate, for, else_, loop_fstate) ==
    Res(else_.fs,
        <<PyAssign(did_not_iterate, PyConst(IntV(1))), for,
          PyIf(PyName(did_not_iterate),
               inject_scope_code(else_.fs, loop_fstate, else_.code),
               <<>>, "loop_else")>>)

\* visit_For after the body is lowered: hdr holds the temporaries and the
\* lowered header of the loop
For_body(hdr, inner, loop_fstate, node, config) ==
    LET has_else == node.else_ # <<>>
        body == (IF has_else
                 THEN <<PyAssign(hdr.did_not_iterate, PyConst(IntV(0)))>>
                 ELSE <<>>)
                \o (IF hdr.lenient
                    THEN <<PyAssignT(hdr.unpack_target,
                                     make_unpack_call(hdr.iter_name, node.target))>>
                    ELSE <<>>)
                \o inner.code
        for == PyFor(PyTupleT(<<hdr.target, PyT(hdr.loop_accessor)>>),
                     hdr.wrapped_iter,
                     inject_scope_code(inner.fs, loop_fstate, body),
                     IF has_else THEN "orelse" ELSE "")
    IN IF ~has_else THEN Res(inner.fs, <<for>>)
       ELSE For_else(hdr.did_not_iterate, for,
                     ast_visit_block(inner.fs, loop_fstate + 1, node.else_, 1, config),
                     loop_fstate)

\* visit_For after the tracking: the temporaries, the target, the parent
\* accessor, the iterable and the accessor are lowered, then the body
For_emit(fs, f, node, config) ==
    LET has_else == node.else_ # <<>>
        lenient == (config.allow_noniter_unpacking \/ ~config.strict_tuple_unpacking)
                   /\ node.target.tt = "Tuple"
        loop_fstate == Derived(fs) - 1
        did_not_iterate == temporary(fs)
        iter_name == IF has_else THEN temporary(next_num(fs)) ELSE temporary(fs)
        tgt == ast_visit_Target(fs, loop_fstate, node.target)
        parent == IF config.forloop_parent_access
                  THEN lookup_name(fs, f, forloop_accessor, "load")
                  ELSE [id |-> NoId, err |-> "ok"]
        iter == ast_visit_Expr(fs, f, node.expr)
        loop_accessor == lookup_name(fs, loop_fstate, forloop_accessor, "store")
        hdr == [did_not_iterate |-> did_not_iterate, iter_name |-> iter_name,
                lenient |-> lenient, unpack_target |-> tgt.t,
                target |-> IF lenient THEN PyT(iter_name) ELSE tgt.t,
                wrapped_iter |->
                    make_call("config.wrap_loop",
                              <<iter.e, IF config.forloop_parent_access
                                        THEN PyName(parent.id) ELSE PyNone>>),
                loop_accessor |-> loop_accessor.id]
        fs1 == SetErr(SetErr(SetErr(tgt.fs, parent.err), iter.fs.err),
                      loop_accessor.err)
        fs2 == IF has_else THEN next_num(fs1) ELSE fs1
        fs3 == IF lenient THEN next_num(fs2) ELSE fs2
    IN For_body(hdr, ast_visit_block(fs3, loop_fstate, node.body, 1, config),
                loop_fstate, node, config)

ast_visit_For(fs, f, node, config) ==
    For_emit(For_track(fs, f, node, config), f, node, config)

\* visit_Scope after the body is lowered
Scope_result(rv, scope_fstate) ==
    Res(rv.fs, inject_scope_code(rv.fs, scope_fstate, rv.code))

ast_visit_Scope(fs, f, node, config) ==
    Scope_result(ast_visit_block(derive_analyze(fs, f, node.body),
                                 Len(fs.frames) + 1, node.body, 1, config),
                 Len(fs.frames) + 1)

\* visit_FilterBlock after the body is lowered: the result of the filter is
\* written with write_output of the enclosing frame
Filter_result(rv, buffer_name, filter_fstate, f, node) ==
    Res(rv.fs,
        inject_scope_code(rv.fs, filter_fstate,
            <<PyAssign(buffer_name, PyList)>> \o rv.code
            \o <<write_output(rv.fs, f,
                              make_call("rtstate.info.call_block_filter",
                                        <<PyStr(node.name), PyName(buffer_name)>>)),
                 PyAssign(buffer_name, PyNone)>>))

\* visit_FilterBlock after the tracking: the buffer is a temporary of the
\* filter frame; the frames derived inside the body start without a buffer
Filter_body(fs, f, node, config) ==
    Filter_result(ast_visit_block([next_num(fs) EXCEPT
                                       !.frames[Derived(fs)].buffer = temporary(fs)],
                                  Derived(fs), node.body, 1, config),
                  temporary(fs), Derived(fs), f, node)

ast_visit_FilterBlock(fs, f, node, config) ==
    Filter_body(derive_analyze(fs, f, node.body), f, node, config)

\* ASTTransformer.locals_to_dict: a dict display of the pairs of iter_vars,
\* each value a read of the local variable
locals_to_dict(vars_) ==
    LET names == SetToSeq(DOMAIN vars_)
    IN [i \in DOMAIN names |->
           PyE("Name", vars_[names[i]], NoneV, names[i], <<>>, NoTarget)]

\* ASTTransformer.context_to_lookup: rtstate.context, behind the locals in
\* a MultiMappingLookup when there are any
context_to_lookup(fs, f, reference_node) ==
    LET found == iter_vars(fs, f, node_of(fs, f, reference_node))
    IN [fs |-> SetErr(fs, found.err),
        e |-> PyE("Lookup", NoId, NoneV, "rtstate.context",
                  locals_to_dict(found.vars), NoTarget)]

make_template_lookup(template_name) ==
    <<PyAssign(PyLocal("template_name"), PyStr(template_name)),
      PyAssign(PyLocal("template"),
               make_call("rtstate.get_template",
                         <<PyName(PyLocal("template_name"))>>))>>

make_template_info(behavior) ==
    PyAssign(PyLocal("info"),
             make_call("rtstate.info.make_info",
                       <<PyName(PyLocal("template")),
                         PyName(PyLocal("template_name")), PyStr(behavior)>>))

make_template_generator(vars_) ==
    make_call("config.yield_from_template",
              <<PyName(PyLocal("template")), PyName(PyLocal("info")), vars_>>)

make_template_render_call(vars_, behavior) ==
    <<make_template_info(behavior),
      PyFor(PyT(PyLocal("event")), make_template_generator(vars_),
            <<PyExpr(PyYield(PyName(PyLocal("event"))))>>, "events")>>

\* ASTTransformer.visit_Include: with ignore_missing the lookup is the body
\* of a try statement, the render its else clause
Include_result(vars_, node) ==
    Res(vars_.fs,
        IF node.ignore_missing
        THEN <<PyTry(make_template_lookup(node.name), "TemplateNotFound",
                     make_template_render_call(vars_.e, "include"))>>
        ELSE make_template_lookup(node.name)
             \o make_template_render_call(vars_.e, "include"))

ast_visit_Include(fs, f, node) == Include_result(context_to_lookup(fs, f, node), node)

\* ASTTransformer.visit_Extends
Extends_result(vars_, node) ==
    Res(vars_.fs,
        make_template_lookup(node.name)
        \o make_template_render_call(vars_.e, "extends") \o <<PyReturn>>)

ast_visit_Extends(fs, f, node) == Extends_result(context_to_lookup(fs, f, node), node)

ast_visit(fs, f, node, config) ==
    CASE node.k = "Output"      -> ast_visit_Output(fs, f, node)
      [] node.k = "Assign"      -> ast_visit_Assign(fs, f, node, config)
      [] node.k = "If"          -> ast_visit_If(fs, f, node, config)
      [] node.k = "For"         -> ast_visit_For(fs, f, node, config)
      [] node.k = "Scope"       -> ast_visit_Scope(fs, f, node, config)
      [] node.k = "FilterBlock" -> ast_visit_FilterBlock(fs, f, node, config)
      [] node.k = "Include"     -> ast_visit_Include(fs, f, node)
      [] node.k = "Extends"     -> ast_visit_Extends(fs, f, node)
      [] node.k = "Break"       -> Res(fs, <<PyBreak>>)
      [] node.k = "Continue"    -> Res(fs, <<PyContinue>>)

\* visit_Template after the body is lowered
Template_result(rv) == Res(rv.fs, inject_scope_code(rv.fs, 1, rv.code))

\* ASTTransformer.visit_Template: the body of the function root and the frame
\* store the lowering ends with
ast_visit_Template(body, config) ==
    Template_result(ast_visit_block(analyze_identfiers(NewStore, 1, body), 1, body,
                                    1, config))

\* get_exec_namespace of the compiled test case, for every template the
\* config can load: the code compiles a template each time it is executed,
\* and the lowering depends on nothing but the template and the config, so
\* the namespaces are kept with the config the compiled code runs under
get_exec_namespace(config) ==
    [config EXCEPT !.namespaces =
        [n \in DOMAIN config.templates |->
            ast_visit_Template(config.templates[n], config)]]

(***************************************************************************)
(* The helpers of the compiled code (bcinterp.py).  A generator is the     *)
(* value GenV(items, exc): the items it yields, then the exception it      *)
(* raises when asked for one more ("ok": it just ends).                    *)
(***************************************************************************)
GenV(items, exc) == Value("gen", 0, items, "", <<>>, exc)

Min(a, b) == IF a < b THEN a ELSE b

\* the name a target stands for in make_name_tuple: a string, or a tuple
TargetName(target) == IF target.tt = "Name" THEN target.name ELSE "tuple"

RECURSIVE recursive_make_undefined(_)
recursive_make_undefined(targets) ==
    ListV([i \in 1..Len(targets) |->
              IF targets[i].tt = "Tuple"
              THEN recursive_make_undefined(targets[i].items)
              ELSE undefined_variable(targets[i].name)])

RECURSIVE lenient_unpack_helper(_, _, _)
RECURSIVE unpack_pairs(_, _, _, _)

\* the first loop of _unpack_tuple_silent: an item per (name, value) pair; a
\* nested helper call that raises ends the generator with its exception
unpack_pairs(config, values, targets, i) ==
    IF i > Min(Len(targets), Len(values)) THEN GenV(<<>>, "ok")
    ELSE LET h == IF targets[i].tt = "Tuple"
                  THEN lenient_unpack_helper(config, values[i], targets[i].items)
                  ELSE [sig |-> "ok", v |-> values[i]]
             r == unpack_pairs(config, values, targets, i + 1)
         IN IF h.sig # "ok" THEN GenV(<<>>, h.sig)
            ELSE GenV(<<h.v>> \o r.s, r.exc)

\* _unpack_tuple_silent: after the pairs, for x in xrange(diff) it yields
\* undefined_variable(targets[len(targets) + x - 1]); the index is past the
\* end of targets from x = 1 on
_unpack_tuple_silent(config, values, targets) ==
    LET first == unpack_pairs(config, values, targets, 1)
        diff == Len(targets) - Len(values)
    IN IF first.exc # "ok" \/ diff <= 0 THEN first
       ELSE GenV(first.s \o <<undefined_variable(TargetName(targets[Len(targets)]))>>,
                 IF diff >= 2 THEN "IndexError" ELSE "ok")

lenient_unpack_helper(config, iterable, targets) ==
    IF ~IsIterable(iterable)
    THEN IF ~config.allow_noniter_unpacking
         THEN [sig |-> "TypeError", v |-> NoneV]
         ELSE [sig |-> "ok", v |-> recursive_make_undefined(targets)]
    ELSE IF config.strict_tuple_unpacking THEN [sig |-> "ok", v |-> iterable]
    ELSE [sig |-> "ok", v |-> _unpack_tuple_silent(config, iterable.s, targets)]

(***************************************************************************)
(* The run of the compiled code: Python's semantics for the statements the *)
(* lowering emits.  rt.env holds the local variables of the function, a    *)
(* read of a variable never assigned raises NameError.                     *)
(***************************************************************************)
RuntimeState(context) ==
    [env |-> EmptyMap, context |-> context, exports |-> EmptyMap, out |-> <<>>,
     sig |-> "ok", forRuns |-> 0, emptyRuns |-> 0, bodyRuns |-> 0, elseRuns |-> 0]

\* RuntimeState.lookup_var
lookup_var(rt, name) ==
    IF Has(rt.context, name) THEN rt.context[name] ELSE undefined_variable(name)

\* RuntimeState.export_var
export_var(rt, name, value) == [rt EXCEPT !.exports = Put(@, name, value)]

\* Python's assignment to a target: a name is bound; a tuple target takes
\* exactly as many items as it has names from an iterable, and nothing is
\* stored at that level when the iterable raises or has another length
RECURSIVE py_store(_, _, _)
RECURSIVE py_store_items(_, _, _, _)
py_store_items(items, values, i, rt) ==
    IF i > Len(items) \/ rt.sig # "ok" THEN rt
    ELSE py_store_items(items, values, i + 1, py_store(items[i], values[i], rt))

py_store(target, value, rt) ==
    IF target.tt = "Name" THEN [rt EXCEPT !.env = Put(@, target.id, value)]
    ELSE LET n == Len(target.items)
         IN CASE value.t = "list" ->
                     IF Len(value.s) = n THEN py_store_items(target.items, value.s, 1, rt)
                     ELSE Raise(rt, "ValueError")
              [] value.t = "gen" ->
                     IF Len(value.s) < n
                     THEN Raise(rt, IF value.exc # "ok" THEN value.exc ELSE "ValueError")
                     ELSE IF Len(value.s) > n THEN Raise(rt, "ValueError")
                     ELSE IF value.exc # "ok" THEN Raise(rt, value.exc)
                     ELSE py_store_items(target.items, value.s, 1, rt)
              [] OTHER -> Raise(rt, "TypeError")

BufV(text) == Value("buf", 0, <<>>, "", text, "ok")

\* MultiMappingLookup((locals, rtstate.context)): the locals first, then
\* the context; reading a local that is not bound yet is a NameError
MultiMappingLookup(e, rt) ==
    IF \E i \in DOMAIN e.args : ~Has(rt.env, e.args[i].id)
    THEN [sig |-> "NameError", ctx |-> EmptyMap]
    ELSE [sig |-> "ok",
          ctx |-> [n \in DOMAIN rt.context \cup {e.args[i].f : i \in DOMAIN e.args} |->
                      IF \E i \in DOMAIN e.args : e.args[i].f = n
                      THEN rt.env[(CHOOSE a \in {e.args[i] : i \in DOMAIN e.args} :
                                      a.f = n).id]
                      ELSE rt.context[n]]]

RECURSIVE run_compiled(_, _, _)

\* config.yield_from_template of the compiled templates: the function root
\* of the compiled template runs on a new RuntimeState over vars
compiled_yield_from_template(template, vars_, config) ==
    LET r == run_compiled(config.namespaces[template.name], vars_, config)
    IN [sig |-> "ok",
        v |-> GenV([k \in DOMAIN r.out |-> TextV(<<r.out[k]>>)], r.sig)]

\* the value of an expression of the compiled code, or the exception raised
RECURSIVE py_eval(_, _, _)
py_eval(e, rt, config) ==
    CASE e.x = "Name" ->
             IF Has(rt.env, e.id) THEN [sig |-> "ok", v |-> rt.env[e.id]]
             ELSE [sig |-> "NameError", v |-> NoneV]
      [] e.x = "Const" -> [sig |-> "ok", v |-> e.val]
      [] e.x = "None" -> [sig |-> "ok", v |-> NoneV]
      [] e.x = "List" ->
             IF \E i \in DOMAIN e.args : py_eval(e.args[i], rt, config).sig # "ok"
             THEN py_eval(e.args[CHOOSE i \in DOMAIN e.args :
                                     /\ py_eval(e.args[i], rt, config).sig # "ok"
                                     /\ \A j \in 1..(i - 1) :
                                            py_eval(e.args[j], rt, config).sig = "ok"],
                          rt, config)
             ELSE [sig |-> "ok", v |-> BufV(<<>>)]
      [] e.x = "Call" /\ e.f = "rtstate.config.wrap_function" ->
             LET callable == py_eval(e.args[2], rt, config)
                 defaults == py_eval(e.args[3], rt, config)
             IN IF callable.sig # "ok" THEN callable
                ELSE IF defaults.sig # "ok" THEN defaults
                ELSE [sig |-> "ok",
                      v |-> Value("function", 0, <<>>, e.args[1].f, <<>>, "ok")]
      [] e.x = "Str" -> [sig |-> "ok", v |-> Value("str", 0, <<>>, e.f, <<>>, "ok")]
      [] e.x = "Call" /\ e.f = "rtstate.get_template" ->
             LET a == py_eval(e.args[1], rt, config)
             IN IF a.sig # "ok" THEN a ELSE get_template(config, a.v.name)
      [] e.x = "Call" /\ e.f = "rtstate.info.make_info" ->
             LET a == py_eval(e.args[1], rt, config)
             IN IF a.sig # "ok" THEN a
                ELSE [sig |-> "ok", v |-> Value("info", 0, <<>>, a.v.name, <<>>, "ok")]
      [] e.x = "Call" /\ e.f = "rtstate.lookup_var" ->
             [sig |-> "ok", v |-> lookup_var(rt, e.args[1].f)]
      [] e.x = "Call" /\ e.f = "rtstate.info.finalize" ->
             LET a == py_eval(e.args[1], rt, config)
             IN IF a.sig # "ok" THEN a ELSE [sig |-> "ok", v |-> TextV(to_unicode(a.v))]
      [] e.x = "Call" /\ e.f = "rtstate.info.call_block_filter" ->
             LET a == py_eval(e.args[2], rt, config)
             IN IF a.sig # "ok" THEN a
                ELSE IF a.v.t # "buf" THEN [sig |-> "TypeError", v |-> NoneV]
                ELSE [sig |-> "ok", v |-> call_filter(a.v.text)]
      [] e.x = "Call" /\ e.f = "config.wrap_loop" ->
             LET it == py_eval(e.args[1], rt, config)
                 parent == py_eval(e.args[2], rt, config)
             IN IF it.sig # "ok" THEN it
                ELSE IF parent.sig # "ok" THEN parent
                ELSE IF ~IsIterable(it.v) THEN [sig |-> "TypeError", v |-> NoneV]
                ELSE it
      [] e.x = "Call" /\ e.f = "lenient_unpack_helper" ->
             LET a == py_eval(PyName(e.id), rt, config)
             IN IF a.sig # "ok" THEN a
                ELSE lenient_unpack_helper(config, a.v, e.t.items)
      [] OTHER -> [sig |-> "TypeError", v |-> NoneV]

\* the call config.yield_from_template(template, info, vars), the iterable
\* of the for statement of make_template_render_call
py_generator(e, rt, config) ==
    LET a == py_eval(e.args[1], rt, config)
        i == py_eval(e.args[2], rt, config)
        l == MultiMappingLookup(e.args[3], rt)
    IN IF a.sig # "ok" THEN a
       ELSE IF i.sig # "ok" THEN i
       ELSE IF l.sig # "ok" THEN [sig |-> l.sig, v |-> NoneV]
       ELSE compiled_yield_from_template(a.v, l.ctx, config)

RECURSIVE py_exec(_, _, _)
RECURSIVE py_exec_block(_, _, _, _)
RECURSIVE py_loop(_, _, _, _, _)

py_exec_block(code, i, rt, config) ==
    IF i > Len(code) \/ rt.sig # "ok" THEN rt
    ELSE py_exec_block(code, i + 1, py_exec(code[i], rt, config), config)

\* an expression statement: a yield, an append to a buffer, an export
py_exec_Expr(stmt, rt, config) ==
    LET e == stmt.value
    IN CASE e.x = "Yield" ->
                LET a == py_eval(e.args[1], rt, config)
                IN IF a.sig # "ok" THEN Raise(rt, a.sig)
                   ELSE [rt EXCEPT !.out = @ \o to_unicode(a.v)]
         [] e.x = "Append" ->
                LET b == py_eval(PyName(e.id), rt, config)
                    a == py_eval(e.args[1], rt, config)
                IN IF b.sig # "ok" THEN Raise(rt, b.sig)
                   ELSE IF a.sig # "ok" THEN Raise(rt, a.sig)
                   ELSE IF b.v.t # "buf" THEN Raise(rt, "AttributeError")
                   ELSE [rt EXCEPT !.env[e.id] = BufV(b.v.text \o to_unicode(a.v))]
         [] e.x = "Call" /\ e.f = "rtstate.export_var" ->
                LET a == py_eval(e.args[2], rt, config)
                IN IF a.sig # "ok" THEN Raise(rt, a.sig)
                   ELSE export_var(rt, e.args[1].f, a.v)
         [] OTHER -> rt

\* one iteration of a for statement over the pairs (item, loop context) of
\* wrap_loop: store the pair in the target, then run the body
py_iteration(stmt, item, i, rt, config) ==
    LET rt1 == py_store(stmt.target, ListV(<<item, LoopV(i - 1)>>), rt)
    IN IF rt1.sig # "ok" THEN rt1
       ELSE py_exec_block(stmt.body, 1, [rt1 EXCEPT !.bodyRuns = @ + 1], config)

py_loop(stmt, items, i, rt, config) ==
    IF i > Len(items) THEN rt
    ELSE LET r == py_iteration(stmt, items[i], i, rt, config)
         IN CASE r.sig \in {"ok", "continue"} ->
                     py_loop(stmt, items, i + 1, [r EXCEPT !.sig = "ok"], config)
              [] r.sig = "break" -> [r EXCEPT !.sig = "ok"]
              [] OTHER -> r

\* a for statement over the events of a generator: every event is stored
\* in the target and the body runs, then the generator's exception is raised
RECURSIVE py_events(_, _, _, _, _)
py_events(stmt, gen, i, rt, config) ==
    IF rt.sig # "ok" THEN rt
    ELSE IF i > Len(gen.s) THEN Raise(rt, gen.exc)
    ELSE py_events(stmt, gen, i + 1,
                   py_exec_block(stmt.body, 1, py_store(stmt.target, gen.s[i], rt),
                                 config),
                   config)

\* try: body / except <mark>: pass / else: orelse
py_try(stmt, r, config) ==
    IF r.sig = stmt.mark THEN [r EXCEPT !.sig = "ok"]
    ELSE IF r.sig = "ok" THEN py_exec_block(stmt.orelse, 1, r, config)
    ELSE r

py_exec(stmt, rt, config) ==
    CASE stmt.op = "Assign" ->
             LET a == py_eval(stmt.value, rt, config)
             IN IF a.sig # "ok" THEN Raise(rt, a.sig)
                ELSE py_store(stmt.target, a.v, rt)
      [] stmt.op = "Expr" -> py_exec_Expr(stmt, rt, config)
      [] stmt.op = "If" ->
             LET a == py_eval(stmt.value, rt, config)
             IN IF a.sig # "ok" THEN Raise(rt, a.sig)
                ELSE IF Truthy(a.v)
                THEN py_exec_block(stmt.body, 1,
                                   IF stmt.mark = "loop_else"
                                   THEN [rt EXCEPT !.elseRuns = @ + 1] ELSE rt,
                                   config)
                ELSE py_exec_block(stmt.orelse, 1, rt, config)
      [] stmt.op = "For" ->
             LET a == IF stmt.mark = "events" THEN py_generator(stmt.value, rt, config)
                      ELSE py_eval(stmt.value, rt, config)
             IN IF a.sig # "ok" THEN Raise(rt, a.sig)
                ELSE IF stmt.mark = "events" THEN py_events(stmt, a.v, 1, rt, config)
                ELSE py_loop(stmt, a.v.s, 1,
                             [rt EXCEPT !.forRuns = @ + 1,
                                        !.emptyRuns =
                                            IF a.v.s = <<>> /\ stmt.mark = "orelse"
                                            THEN @ + 1 ELSE @],
                             config)
      [] stmt.op = "Break" -> Raise(rt, "break")
      [] stmt.op = "Continue" -> Raise(rt, "continue")
      [] stmt.op = "Try" ->
             py_try(stmt, py_exec_block(stmt.body, 1, rt, config), config)
      [] stmt.op = "Return" -> Raise(rt, "return")
      [] stmt.op = "FunctionDef" ->
             py_store(stmt.target, Value("function", 0, <<>>, "", <<>>, "ok"), rt)

\* Python refuses to compile a break or continue that is not inside a loop
RECURSIVE loop_controls_ok(_, _)
loop_controls_ok(code, in_loop) ==
    \A i \in DOMAIN code :
        CASE code[i].op \in {"Break", "Continue"} -> in_loop
          [] code[i].op = "For" -> loop_controls_ok(code[i].body, TRUE)
          [] code[i].op \in {"If", "Try"} ->
                 /\ loop_controls_ok(code[i].body, in_loop)
                 /\ loop_controls_ok(code[i].orelse, in_loop)
          [] code[i].op = "FunctionDef" -> loop_controls_ok(code[i].body, FALSE)
          [] OTHER -> TRUE

\* the code holds a yield of the function it is the body of
RECURSIVE has_yield(_)
has_yield(code) ==
    \E i \in DOMAIN code :
        CASE code[i].op = "Expr" -> code[i].value.x = "Yield"
          [] code[i].op \in {"If", "For", "Try"} ->
                 has_yield(code[i].body) \/ has_yield(code[i].orelse)
          [] OTHER -> FALSE

\* Python refuses to compile a return with a value in a generator: every
\* FunctionDef of the lowering ends with such a return
RECURSIVE generator_returns_value(_)
generator_returns_value(code) ==
    \E i \in DOMAIN code :
        CASE code[i].op = "FunctionDef" ->
                 has_yield(code[i].body) \/ generator_returns_value(code[i].body)
          [] code[i].op \in {"If", "For", "Try"} ->
                 \/ generator_returns_value(code[i].body)
                 \/ generator_returns_value(code[i].orelse)
          [] OTHER -> FALSE

\* compile the lowered template and run its function root: an error of the
\* lowering or of the compilation leaves no output
run_compiled(compiled, context, config) ==
    IF compiled.fs.err # "ok" THEN Raise(RuntimeState(context), compiled.fs.err)
    ELSE IF ~loop_controls_ok(compiled.code, FALSE)
            \/ generator_returns_value(compiled.code)
    THEN Raise(RuntimeState(context), "SyntaxError")
    ELSE LET r == py_exec_block(compiled.code, 1, RuntimeState(context), config)
         IN IF r.sig = "return" THEN [r EXCEPT !.sig = "ok"] ELSE r

(***************************************************************************)
(* The templates and inputs the renders are checked on.                    *)
(***************************************************************************)
MaxItems == 2

Items(n) == ListV([i \in 1..n |-> IntV(i)])

Iters == {Const(Items(0)), Const(Items(MaxItems))}

Tests == {Const(IntV(1)), Const(IntV(0))}

OutA == Output(Name("a"))

OutX == Output(Name("x"))

AsgA == Assign(NameT("a"), Const(IntV(23)))

PlainLeafs == {OutA, AsgA}

LoopLeafs == PlainLeafs \cup {OutX, Break, Continue}

Seqs1(S) == {<<>>} \cup {<<z>> : z \in S}

Seqs2(S) == Seqs1(S) \cup {<<y, z>> : y, z \in S}

\* statements of nesting depth 1
ForOver(bodies, elses) ==
    {For(NameT("x"), it, b, e) : it \in Iters, b \in bodies, e \in elses}

Compound1 ==
    {If(t, b, e) : t \in Tests, b \in Seqs2(PlainLeafs), e \in Seqs1(PlainLeafs)}
    \cup {Scope(b) : b \in Seqs2(PlainLeafs)}
    \cup {FilterBlock(b) : b \in Seqs2(PlainLeafs)}
    \cup ForOver(Seqs2(LoopLeafs), Seqs1(PlainLeafs))

\* statements nested in the body of another statement
InnerOf(L) ==
    {If(Const(IntV(1)), <<z>>, <<>>) : z \in L}
    \cup {If(Const(IntV(0)), <<>>, <<z>>) : z \in L}
    \cup {Scope(<<z>>) : z \in L}
    \cup {FilterBlock(<<z>>) : z \in L}

InnerFor == ForOver({<<z>> : z \in LoopLeafs}, {<<>>, <<OutA>>})

Body2(inner, L) ==
    {<<i>> : i \in inner} \cup {<<z, i>> : z \in L, i \in inner}
    \cup {<<i, z>> : z \in L, i \in inner}

\* statements of nesting depth 2
Compound2 ==
    ForOver(Body2(InnerOf(LoopLeafs) \cup InnerFor, LoopLeafs), {<<>>, <<OutA>>})
    \cup {If(Const(IntV(1)), b, <<>>) : b \in Body2(InnerOf(PlainLeafs) \cup InnerFor, PlainLeafs)}
    \cup {If(Const(IntV(0)), <<>>, b) : b \in Body2(InnerOf(PlainLeafs) \cup InnerFor, PlainLeafs)}
    \cup {Scope(b) : b \in Body2(InnerOf(PlainLeafs) \cup InnerFor, PlainLeafs)}
    \cup {FilterBlock(b) : b \in Body2(InnerOf(PlainLeafs) \cup InnerFor, PlainLeafs)}

\* templates with a Break or Continue outside every For
Stray ==
    {<<z>> : z \in {Break, Continue}}
    \cup {<<If(Const(IntV(1)), <<z>>, <<>>)>> : z \in {Break, Continue}}

\* templates that read, two frames below the root, a name the root assigns
Deep ==
    {<<AsgA, Scope(<<i>>)>> : i \in InnerOf({OutA})}
    \cup {<<AsgA, FilterBlock(<<i>>)>> : i \in InnerOf({OutA})}

Templates ==
    {pre \o <<c>> \o post : pre \in Seqs1(PlainLeafs), c \in Compound1,
                            post \in Seqs1(PlainLeafs)}
    \cup {<<c>> \o post : c \in Compound2, post \in Seqs1(PlainLeafs)}
    \cup Stray
    \cup Deep

\* the variable mappings handed to a render
Inputs == {EmptyMap, Put(EmptyMap, "a", IntV(42))}

Configs == {Config(FALSE, FALSE)}

(***************************************************************************)
(* The render of one template by the interpreter and by the compiled code. *)
(* A render is one step: neither pipeline shares state with anything else  *)
(* while it runs.  pc tells which steps were taken.                        *)
(***************************************************************************)
VARIABLES template, input, cfg, pc, interp, compiled, rtstate, item, iterno,
          tracked, called, info, ctxobj

vars == <<template, input, cfg, pc, interp, compiled, rtstate, item, iterno,
          tracked, called, info, ctxobj>>

NotCompiled == [fs |-> NewStore, code |-> <<>>]

\* no frame has been tracked apart from a lowering
NotTracked == [fs |-> NewStore, outer |-> 1, scope |-> "soft", seed |-> 1,
               runs |-> <<>>]

\* RuntimeInfo.evaluate_block has not been called from outside a render
NotCalled == [name |-> "", level |-> 0, before |-> EmptyMap, ran |-> 0]

\* RuntimeInfo.__init__ (runtime.py): template_cache and block_executers
\* are dictionaries; the lists of executors are objects of their own, kept
\* in lists and named by their position, so that two dictionaries can hold
\* the same list.  requests and loads record the joined names get_template
\* was asked for and the names it handed to config.get_template; returned
\* and sig are the outcome of the last call; cloned is the block_executers
\* dictionary of the clone, once there is one (the rest of a clone is
\* shared with the original)
RuntimeInfo(template_name) ==
    [template_name |-> template_name, template_cache |-> EmptyMap,
     block_executers |-> EmptyMap, lists |-> <<>>,
     requests |-> <<>>, loads |-> <<>>, returned |-> NoneV, sig |-> "ok",
     has_clone |-> FALSE, cloned |-> EmptyMap]

\* no RuntimeInfo is looked at apart from a render
NoInfo == RuntimeInfo("")

\* Context.__init__ (context.py); pushed holds, for the properties, the
\* mappings at the pushes that are not popped yet, and sig the exception of
\* the last operation
Context ==
    [variables |-> EmptyMap, stacked |-> <<>>, needs_push |-> 0, sig |-> "ok",
     pushed |-> <<>>]

\* no Context object is in use
NoContext == Context

Init ==
    /\ template \in Templates
    /\ input \in Inputs
    /\ cfg \in Configs
    /\ pc = "start"
    /\ interp = BasicInterpreterState(input, EmptyMap)
    /\ compiled = NotCompiled
    /\ rtstate = RuntimeState(input)
    /\ item = NoneV
    /\ iterno = 0
    /\ tracked = NotTracked
    /\ called = NotCalled
    /\ info = NoInfo
    /\ ctxobj = NoContext

\* Interpreter.execute: the whole render of the template
Interpret ==
    /\ pc = "start"
    /\ interp' = execute(template, BasicInterpreterState(input, EmptyMap), cfg)
    /\ pc' = "interpreted"
    /\ UNCHANGED <<template, input, cfg, compiled, rtstate, item, iterno,
                   tracked, called, info, ctxobj>>

\* ASTTransformer.transform: the lowering of the template
Transform ==
    /\ pc = "interpreted"
    /\ compiled' = ast_visit_Template(template, cfg)
    /\ pc' = "transformed"
    /\ UNCHANGED <<template, input, cfg, interp, rtstate, item, iterno,
                   tracked, called, info, ctxobj>>

\* the run of the compiled template on the same input
RunCompiled ==
    /\ pc = "transformed"
    /\ rtstate' = run_compiled(compiled, input, get_exec_namespace(cfg))
    /\ pc' = "done"
    /\ UNCHANGED <<template, input, cfg, interp, compiled, item, iterno,
                   tracked, called, info, ctxobj>>

Next == Interpret \/ Transform \/ RunCompiled

Spec == Init /\ [][Next]_vars

(***************************************************************************)
(* A For loop with a Tuple target, iteration by iteration, in the          *)
(* interpreter and in the compiled code: each item of the iterable is      *)
(* unpacked by both.  The loop goes on while neither render has failed.    *)
(***************************************************************************)
MaxNames == 3

MaxValues == 3

MaxIters == 2

NameList == <<"a", "b", "c", "d", "e">>

FlatTarget(n) == TupleT([i \in 1..n |-> NameT(NameList[i])])

\* (a, (b, c))
NestedTarget == TupleT(<<NameT("a"), TupleT(<<NameT("b"), NameT("c")>>)>>)

UnpackTargets == {FlatTarget(n) : n \in 1..MaxNames} \cup {NestedTarget}

UnpackValues ==
    {IntV(5)} \cup {Items(k) : k \in 0..MaxValues}
    \cup {ListV(<<IntV(7), v>>) : v \in {IntV(5), Items(1), Items(2)}}

UnpackConfigs == {Config(s, n) : s, n \in BOOLEAN}

UnpackTemplate(target) == <<For(target, Name("seq"), <<>>, <<>>)>>

InitUnpack ==
    /\ template \in {UnpackTemplate(t) : t \in UnpackTargets}
    /\ input \in Inputs
    /\ cfg \in UnpackConfigs
    /\ pc = "enter"
    /\ interp = BasicInterpreterState(input, EmptyMap)
    /\ compiled = NotCompiled
    /\ rtstate = RuntimeState(input)
    /\ item = NoneV
    /\ iterno = 0
    /\ tracked = NotTracked
    /\ called = NotCalled
    /\ info = NoInfo
    /\ ctxobj = NoContext

\* the loop starts: visit_For of the interpreter pushes the loop frame, the
\* ASTTransformer lowers the template
EnterLoop ==
    /\ pc = "enter"
    /\ interp' = push_frame(interp)
    /\ compiled' = ast_visit_Template(template, cfg)
    /\ pc' = "next"
    /\ UNCHANGED <<template, input, cfg, rtstate, item, iterno,
                   tracked, called, info, ctxobj>>

\* the iterable yields its next item
NextItem ==
    /\ pc = "next"
    /\ iterno < MaxIters
    /\ interp.sig = "ok" /\ rtstate.sig = "ok"
    /\ item' \in UnpackValues
    /\ iterno' = iterno + 1
    /\ pc' = "interp"
    /\ UNCHANGED <<template, input, cfg, interp, compiled, rtstate,
                   tracked, called, info, ctxobj>>

\* the iteration in the interpreter
InterpIterate ==
    /\ pc = "interp"
    /\ interp' = iter_For(template[1], item, iterno, interp, cfg)
    /\ pc' = "compiled"
    /\ UNCHANGED <<template, input, cfg, compiled, rtstate, item, iterno,
                   tracked, called, info, ctxobj>>

\* the for statement of the lowered template
ForStmt(code) == code[CHOOSE i \in DOMAIN code : code[i].op = "For"]

\* the iteration in the compiled code
CompiledIterate ==
    /\ pc = "compiled"
    /\ rtstate' = py_iteration(ForStmt(compiled.code), item, iterno, rtstate, cfg)
    /\ pc' = "next"
    /\ UNCHANGED <<template, input, cfg, interp, compiled, item, iterno,
                   tracked, called, info, ctxobj>>

NextUnpack == EnterLoop \/ NextItem \/ InterpIterate \/ CompiledIterate

SpecUnpack == InitUnpack /\ [][NextUnpack]_vars

(***************************************************************************)
(* The tracking of one node sequence in two frames.  The root frame is     *)
(* analyzed with the statements that precede, a frame derived from it may  *)
(* have been analyzed before; then the sequence is tracked twice, each     *)
(* time in a frame newly derived from the same frame and with the          *)
(* IdentManager at the index it had before the first of the two runs.      *)
(***************************************************************************)
MaxTracked == 2

NameOrConst == {Const(IntV(1)), Name("a"), Name("b")}

TrackedStmts ==
    {Assign(NameT(n), e) : n \in {"a", "b"}, e \in NameOrConst}
    \cup {Output(e) : e \in NameOrConst}
    \cup {For(NameT("x"), Name("b"), <<OutA>>, <<>>),
          If(Name("a"), <<OutA>>, <<>>),
          Scope(<<Assign(NameT("b"), Name("a"))>>)}

RECURSIVE SeqsUpTo(_, _)
SeqsUpTo(S, n) ==
    IF n = 0 THEN {<<>>}
    ELSE SeqsUpTo(S, n - 1)
         \cup {Append(q, z) : q \in {r \in SeqsUpTo(S, n - 1) : Len(r) = n - 1},
                              z \in S}

TrackedSeqs == SeqsUpTo(TrackedStmts, MaxTracked) \ {<<>>}

\* what the root frame has seen before
OuterSeqs == {<<>>, <<AsgA>>, <<OutA>>, <<AsgA, Assign(NameT("b"), Name("a"))>>}

\* what a frame derived earlier from the root frame has seen
EarlierSeqs == {<<>>, <<AsgA>>, <<AsgA, Assign(NameT("b"), Const(IntV(1)))>>}

InitTrack ==
    /\ template \in TrackedSeqs
    /\ input = EmptyMap
    /\ cfg \in Configs
    /\ pc = "start"
    /\ interp = BasicInterpreterState(input, EmptyMap)
    /\ compiled = NotCompiled
    /\ rtstate = RuntimeState(input)
    /\ item = NoneV
    /\ iterno = 0
    /\ tracked \in {[NotTracked EXCEPT !.scope = sc] : sc \in {"soft", "hard"}}
    /\ called = NotCalled
    /\ info = NoInfo
    /\ ctxobj = NoContext

\* FrameState.analyze_identfiers on the root frame
AnalyzeOuter ==
    /\ pc = "start"
    /\ \E nodes \in OuterSeqs :
           tracked' = [tracked EXCEPT !.fs = analyze_identfiers(@, 1, nodes)]
    /\ pc' = "outer"
    /\ UNCHANGED <<template, input, cfg, interp, compiled, rtstate, item, iterno,
                   called, info, ctxobj>>

\* derive() and analyze_identfiers of an earlier frame: its stores of names
\* of the root frame take numbers from the IdentManager
AnalyzeEarlier ==
    /\ pc = "outer"
    /\ \E nodes \in EarlierSeqs :
           LET fs1 == derive(tracked.fs, 1, "soft")
               fs2 == analyze_identfiers(fs1, Derived(fs1), nodes)
           IN tracked' = [tracked EXCEPT !.fs = fs2, !.seed = fs2.index]
    /\ pc' = "ready"
    /\ UNCHANGED <<template, input, cfg, interp, compiled, rtstate, item, iterno,
                   called, info, ctxobj>>

\* derive() and analyze_identfiers(template) with the IdentManager at seed
TrackFresh ==
    /\ pc = "ready"
    /\ Len(tracked.runs) < 2
    /\ LET fs1 == derive([tracked.fs EXCEPT !.index = tracked.seed],
                         tracked.outer, tracked.scope)
           fs2 == analyze_identfiers(fs1, Derived(fs1), template)
       IN tracked' = [tracked EXCEPT !.fs = fs2,
                                     !.runs = Append(@, Derived(fs1))]
    /\ UNCHANGED <<template, input, cfg, pc, interp, compiled, rtstate, item,
                   iterno, called, info, ctxobj>>

NextTrack == AnalyzeOuter \/ AnalyzeEarlier \/ TrackFresh

SpecTrack == InitTrack /\ [][NextTrack]_vars

(***************************************************************************)
(* Template inheritance and block dispatch.  A template that may extend    *)
(* a layout is rendered by the interpreter; then register_block and        *)
(* evaluate_block are called on the RuntimeInfo of the render.             *)
(***************************************************************************)
MaxChain == 3

BlockNames == {"b", "c"}

\* Output of a constant that tells who wrote it
Says(k) == Output(Const(IntV(k)))

StartStmts ==
    {Block(n, <<Says(1)>>) : n \in BlockNames}
    \cup {Block("b", <<AsgA>>), AsgA, OutA}

StartTemplates ==
    {ext \o body : ext \in {<<>>, <<Extends("layout.html")>>,
                             <<Extends("missing.html")>>},
                   body \in Seqs2(StartStmts)}

Layouts ==
    {<<Says(7), z, Says(9)>> :
        z \in {Block(n, <<Says(2)>>) : n \in BlockNames}
              \cup {Scope(<<Block("b", <<Says(2)>>)>>)}}

\* the executors registered from outside a render
Executors == {<<Says(3)>>}

Levels == (0 - 1)..(MaxChain + 1)

InitBlocks ==
    /\ template \in StartTemplates
    /\ input = EmptyMap
    /\ cfg \in {make_inheritance_config(Put(EmptyMap, "layout.html", l)) :
                    l \in Layouts}
    /\ pc = "start"
    /\ interp = BasicInterpreterState(input, EmptyMap)
    /\ compiled = NotCompiled
    /\ rtstate = RuntimeState(input)
    /\ item = NoneV
    /\ iterno = 0
    /\ tracked = NotTracked
    /\ called = NotCalled
    /\ info = NoInfo
    /\ ctxobj = NoContext

\* Interpreter.execute on the starting template
Render ==
    /\ pc = "start"
    /\ interp' = execute(template, interp, cfg)
    /\ pc' = "rendered"
    /\ UNCHANGED <<template, input, cfg, compiled, rtstate, item, iterno,
                   tracked, called, info, ctxobj>>

\* RuntimeInfo.register_block
RegisterBlock ==
    /\ pc \in {"rendered", "registered"}
    /\ \E name \in BlockNames, e \in Executors :
           /\ Has(interp.blocks, name) => Len(interp.blocks[name]) < MaxChain
           /\ interp' = [interp EXCEPT !.blocks = register_block(@, name, e)]
    /\ pc' = "registered"
    /\ UNCHANGED <<template, input, cfg, compiled, rtstate, item, iterno,
                   tracked, called, info, ctxobj>>

\* InterpreterState.evaluate_block(node, level) for a Block node of name
EvaluateBlock ==
    /\ pc \in {"rendered", "registered"}
    /\ interp.sig = "ok"
    /\ \E name \in BlockNames, level \in Levels :
           /\ called' = [name |-> name, level |-> level,
                         before |-> interp.blocks, ran |-> Len(interp.ran)]
           /\ interp' = evaluate_block(interp, name, level, cfg)
    /\ pc' = "called"
    /\ UNCHANGED <<template, input, cfg, compiled, rtstate, item, iterno,
                   tracked, info, ctxobj>>

NextBlocks == Render \/ RegisterBlock \/ EvaluateBlock

SpecBlocks == InitBlocks /\ [][NextBlocks]_vars

(***************************************************************************)
(* The frames of one compilation, call by call: frames are derived from    *)
(* one another, statements and special identifiers are analyzed in any of  *)
(* them in any order, temporaries are taken from the shared IdentManager.  *)
(* called holds the last call and the store it was made on.                *)
(***************************************************************************)
MaxFrames == 2

MaxCalls == 2

CallNames == {"a", "b"}

\* the statements handed to analyze_identfiers, one at a time
CallStmts ==
    {Output(Name(n)) : n \in CallNames}
    \cup {Assign(NameT(n), Const(IntV(1))) : n \in CallNames}

NoCall == [op |-> "none", f |-> 0, stmt |-> Break, name |-> "", before |-> NewStore]

InitCalls ==
    /\ template = <<>>
    /\ input = EmptyMap
    /\ cfg \in Configs
    /\ pc = "calls"
    /\ interp = BasicInterpreterState(input, EmptyMap)
    /\ compiled = NotCompiled
    /\ rtstate = RuntimeState(input)
    /\ item = NoneV
    /\ iterno = 0
    /\ tracked = [fs |-> NewStore, temps |-> <<>>, calls |-> 0]
    /\ called = NoCall
    /\ info = NoInfo
    /\ ctxobj = NoContext

\* FrameState.derive
Derive ==
    /\ Len(tracked.fs.frames) < MaxFrames
    /\ \E f \in DOMAIN tracked.fs.frames, scope \in {"soft", "hard"} :
           /\ tracked' = [tracked EXCEPT !.fs = derive(@, f, scope)]
           /\ called' = [NoCall EXCEPT !.op = "derive", !.f = f,
                                       !.before = tracked.fs]
    /\ UNCHANGED <<template, input, cfg, pc, interp, compiled, rtstate, item,
                   iterno, info, ctxobj>>

\* FrameState.analyze_identfiers([stmt])
Analyze ==
    /\ tracked.calls < MaxCalls
    /\ \E f \in DOMAIN tracked.fs.frames, stmt \in CallStmts :
           /\ tracked' = [tracked EXCEPT
                             !.fs = analyze_identfiers(@, f, <<stmt>>),
                             !.calls = @ + 1]
           /\ called' = [NoCall EXCEPT !.op = "analyze", !.f = f, !.stmt = stmt,
                                       !.name = IF stmt.k = "Output"
                                                THEN stmt.expr.name
                                                ELSE stmt.target.name,
                                       !.before = tracked.fs]
    /\ UNCHANGED <<template, input, cfg, pc, interp, compiled, rtstate, item,
                   iterno, info, ctxobj>>

\* FrameState.add_special_identifier(name)
AddSpecial ==
    /\ tracked.calls < MaxCalls
    /\ \E f \in DOMAIN tracked.fs.frames, name \in CallNames :
           /\ tracked' = [tracked EXCEPT
                             !.fs = add_special_identifier(@, f, name),
                             !.calls = @ + 1]
           /\ called' = [NoCall EXCEPT !.op = "special", !.f = f, !.name = name,
                                       !.before = tracked.fs]
    /\ UNCHANGED <<template, input, cfg, pc, interp, compiled, rtstate, item,
                   iterno, info, ctxobj>>

\* IdentManager.temporary
Temporary ==
    /\ tracked.calls < MaxCalls
    /\ tracked' = [tracked EXCEPT !.fs = next_num(@),
                                  !.temps = Append(@, temporary(tracked.fs)),
                                  !.calls = @ + 1]
    /\ called' = [NoCall EXCEPT !.op = "temporary", !.before = tracked.fs]
    /\ UNCHANGED <<template, input, cfg, pc, interp, compiled, rtstate, item,
                   iterno, info, ctxobj>>

NextCalls == Derive \/ Analyze \/ AddSpecial \/ Temporary

SpecCalls == InitCalls /\ [][NextCalls]_vars

(***************************************************************************)
(* Renders of templates that include or extend other templates.  The       *)
(* library of loadable templates is the one of make_inheritance_config:    *)
(* one that renders, one that extends it, ones whose own includes are      *)
(* missing, one that fails while it renders.  No template includes itself. *)
(***************************************************************************)
Library ==
    [n \in {"leaf.html", "nested.html", "quiet.html", "fails.html", "child.html"} |->
        CASE n = "leaf.html"   -> <<Says(7), OutA>>
          [] n = "child.html"  -> <<Says(4), Extends("leaf.html"), Says(8)>>
          [] n = "nested.html" -> <<Says(5), Include("missing.html", FALSE), Says(6)>>
          [] n = "quiet.html"  -> <<Says(5), Include("missing.html", TRUE), Says(6)>>
          [] n = "fails.html"  ->
                 <<Says(5), For(NameT("x"), Const(IntV(1)), <<OutX>>, <<>>)>>]

TemplateNames == DOMAIN Library \cup {"missing.html"}

Includes == {Include(n, im) : n \in TemplateNames, im \in BOOLEAN}

IncludeStmts ==
    Includes
    \cup {If(Const(IntV(1)), <<inc>>, <<>>) : inc \in Includes}
    \cup {Extends(n) : n \in {"leaf.html", "quiet.html", "fails.html", "missing.html"}}

IncludeTemplates ==
    {pre \o <<c>> \o post : pre \in Seqs1({AsgA, OutA}), c \in IncludeStmts,
                            post \in Seqs1({OutA, Says(9)})}

InitInclude ==
    /\ template \in IncludeTemplates
    /\ input \in Inputs
    /\ cfg = make_inheritance_config(Library)
    /\ pc = "start"
    /\ interp = BasicInterpreterState(input, EmptyMap)
    /\ compiled = NotCompiled
    /\ rtstate = RuntimeState(input)
    /\ item = NoneV
    /\ iterno = 0
    /\ tracked = NotTracked
    /\ called = NotCalled
    /\ info = NoInfo
    /\ ctxobj = NoContext

SpecInclude == InitInclude /\ [][Next]_vars

(***************************************************************************)
(* The lowering of templates that define functions, and the run of the     *)
(* lowered code (interpreter.py has no visitor for Function).  A function  *)
(* is the value of an Assign at top level, in a Scope or in the body of an *)
(* If; its body writes, at top level or nested in another statement.       *)
(***************************************************************************)
FunctionBodies ==
    {<<>>, <<OutA>>, <<OutX>>, <<AsgA, OutA>>}
    \cup {<<i>> : i \in InnerOf({OutA})}

Functions ==
    {Function("f", args, defaults, body) :
        args \in {<<>>, <<"x">>},
        defaults \in {<<>>, <<Const(IntV(1))>>, <<Name("a")>>},
        body \in FunctionBodies}

Defines(fn) ==
    {<<Assign(NameT("f"), fn)>>,
     <<Scope(<<Assign(NameT("f"), fn)>>)>>,
     <<If(Const(IntV(1)), <<Assign(NameT("f"), fn)>>, <<>>)>>}

FunctionTemplates ==
    {pre \o d : pre \in Seqs1(PlainLeafs), d \in UNION {Defines(fn) : fn \in Functions}}

InitLower ==
    /\ template \in FunctionTemplates \cup Deep
    /\ input \in Inputs
    /\ cfg \in Configs
    /\ pc = "interpreted"
    /\ interp = BasicInterpreterState(input, EmptyMap)
    /\ compiled = NotCompiled
    /\ rtstate = RuntimeState(input)
    /\ item = NoneV
    /\ iterno = 0
    /\ tracked = NotTracked
    /\ called = NotCalled
    /\ info = NoInfo
    /\ ctxobj = NoContext

NextLower == Transform \/ RunCompiled

SpecLower == InitLower /\ [][NextLower]_vars

(***************************************************************************)
(* Properties of a render.                                                 *)
(***************************************************************************)
\* a template is well formed when Break and Continue occur in For bodies only
RECURSIVE ControlsInLoops(_, _)
ControlsInLoops(nodes, in_loop) ==
    \A i \in DOMAIN nodes :
        CASE nodes[i].k \in {"Break", "Continue"} -> in_loop
          [] nodes[i].k = "For" -> /\ ControlsInLoops(nodes[i].body, TRUE)
                                   /\ ControlsInLoops(nodes[i].else_, in_loop)
          [] OTHER -> /\ ControlsInLoops(nodes[i].body, in_loop)
                      /\ ControlsInLoops(nodes[i].else_, in_loop)

WellFormed(nodes) == ControlsInLoops(nodes, FALSE)

\* C1: for every well-formed template and every input mapping the output of
\* the interpreter equals the output of the code the ASTTransformer produces,
\* run on the same mapping.
C1_SameOutput ==
    (pc = "done" /\ WellFormed(template)) =>
        /\ rtstate.sig = interp.sig
        /\ rtstate.out = interp.out

\* the top-level statements of the template never assign name
RootNeverAssigns(nodes, name) ==
    \A i \in DOMAIN nodes :
        ~(nodes[i].k = "Assign" /\ nodes[i].target = NameT(name))

\* the template ends with a top-level read of "a" that follows a nested
\* construct, and "a" is readable from the input
ReadAfterConstruct ==
    /\ WellFormed(template)
    /\ Has(input, "a")
    /\ Len(template) >= 2
    /\ Last(template) = OutA
    /\ template[Len(template) - 1].k \in {"If", "For", "Scope", "FilterBlock"}
    /\ RootNeverAssigns(template, "a")

\* C2: a read of a name in the enclosing frame after a nested soft construct
\* that assigned the name yields the value the name had before the
\* construct, in the interpreter and in the lowered code.
C2_OuterBindingKept ==
    (pc = "done" /\ ReadAfterConstruct) =>
        /\ interp.sig = "ok" => Last(interp.out) = ToString(input["a"].i)
        /\ rtstate.sig = "ok" => Last(rtstate.out) = ToString(input["a"].i)

TrackedMaps(i) ==
    LET fr == tracked.fs.frames[tracked.runs[i]]
    IN [local_identifiers |-> fr.local_identifiers,
        referenced_identifiers |-> fr.referenced_identifiers,
        required_aliases |-> fr.required_aliases,
        requires_lookup |-> fr.requires_lookup]

RECURSIVE BodiesIn(_, _)
BodiesIn(found, name) ==
    IF found = <<>> THEN <<>>
    ELSE (IF Head(found).name = name THEN <<Head(found).body>> ELSE <<>>)
         \o BodiesIn(Tail(found), name)

BodiesOf(nodes, name) == BodiesIn(find_all_Block(nodes), name)

Extending == template # <<>> /\ template[1] = Extends("layout.html")

Layout == cfg.templates["layout.html"]

\* the name of the block the layout renders between its two outputs
LayoutBlock == find_all_Block(Layout)[1].name

\* what a body writes when it runs by itself
TextOf(body) ==
    visit_block(body, 1, BasicInterpreterState(EmptyMap, EmptyMap), cfg).out

\* the number of executors registered for the name when evaluate_block
\* was called
ChainLength ==
    IF Has(called.before, called.name) THEN Len(called.before[called.name])
    ELSE 0

\* C8: a child that extends a layout and defines a block of the same name
\* has its own block body run where the layout renders the block; the
\* starting template registers its blocks before those of the layout;
\* evaluate_block(name, k) runs the k-th executor registered for name.
C8_ChildBlockWins ==
    /\ (pc = "rendered" /\ Extending) =>
           /\ interp.sig = "ok"
           /\ \A name \in DOMAIN interp.blocks :
                  interp.blocks[name] =
                      BodiesOf(template, name) \o BodiesOf(Layout, name)
           /\ BodiesOf(template, LayoutBlock) # <<>> =>
                  /\ interp.ran = <<BodiesOf(template, LayoutBlock)[1]>>
                  /\ interp.out =
                         <<"7">> \o TextOf(BodiesOf(template, LayoutBlock)[1])
                                \o <<"9">>
    /\ (pc = "called" /\ called.level \in 1..ChainLength) =>
           /\ Len(interp.ran) = called.ran + 1
           /\ Last(interp.ran) = called.before[called.name][called.level]

\* a child overrode the block of its layout with a body that writes, and
\* the layout's own body stayed behind it in the chain
C8_Witness ==
    /\ pc = "rendered" /\ Extending
    /\ BodiesOf(template, LayoutBlock) = <<<<Says(1)>>>>
    /\ interp.blocks[LayoutBlock] = <<<<Says(1)>>, <<Says(2)>>>>
    /\ interp.out = <<"7", "1", "9">>

\* C9: evaluate_block(name, level) invokes an executor only when name has
\* n >= 1 executors and 1 <= level <= n; a name never registered raises
\* BlockNotFoundException, every other level BlockLevelOverflowException,
\* and then no executor is invoked and the registry is unchanged.
C9_DispatchErrors ==
    pc = "called" =>
        /\ ChainLength = 0 => interp.sig = "BlockNotFoundException"
        /\ (ChainLength >= 1 /\ called.level \notin 1..ChainLength) =>
               interp.sig = "BlockLevelOverflowException"
        /\ called.level \notin 1..ChainLength =>
               /\ Len(interp.ran) = called.ran
               /\ interp.blocks = called.before
        /\ Len(interp.ran) > called.ran => called.level \in 1..ChainLength

\* the last value each name is given by an Assign statement of the root of
\* the template
RECURSIVE TopLevelAssigned(_)
TopLevelAssigned(nodes) ==
    IF nodes = <<>> THEN EmptyMap
    ELSE LET n == Last(nodes)
             rest == TopLevelAssigned(Front(nodes))
         IN IF n.k = "Assign" /\ n.target.tt = "Name" /\ ~Has(rest, n.target.name)
            THEN Put(rest, n.target.name, n.expr.v)
            ELSE rest

\* C10: a name is in the exports exactly when a statement of the root frame
\* of the template assigned it, with its last top-level value; what is
\* assigned in a nested frame (here that of a Block) is never exported.
C10_ExportsTopLevel ==
    (pc = "rendered" /\ interp.sig = "ok" /\ ~Extending) =>
        interp.exports = TopLevelAssigned(template)

(***************************************************************************)
(* Properties of the unpacking of loop items.                              *)
(***************************************************************************)
LoopTarget == template[1].target

RECURSIVE TargetNames(_)
TargetNames(target) ==
    IF target.tt = "Name" THEN {target.name}
    ELSE UNION {TargetNames(target.items[i]) : i \in DOMAIN target.items}

IsFlat(target) == \A i \in DOMAIN target.items : target.items[i].tt = "Name"

\* what the interpreter state binds name to: the binding a read finds (a
\* read of a name without binding yields undefined_variable(name))
BoundInState(st, name) == getitem(st.context, Len(st.context), name)

\* what the compiled code binds name to: the local variable the loop frame
\* (the second frame of the lowering) uses for name
BoundInEnv(rt, name) ==
    LET id == lookup_name(compiled.fs, 2, name, "load").id
    IN IF Has(rt.env, id) THEN [found |-> TRUE, v |-> rt.env[id]]
       ELSE [found |-> FALSE, v |-> NoneV]

Is(value) == [found |-> TRUE, v |-> value]

\* the loop target has another number of items than the item has elements
Mismatch ==
    /\ cfg.strict_tuple_unpacking
    /\ IsIterable(item)
    /\ Len(item.s) # Len(LoopTarget.items)

\* the first nested tuple of the target, at position j, meets an iterable
\* element of another length
NestedMismatch(j) ==
    /\ cfg.strict_tuple_unpacking
    /\ IsIterable(item)
    /\ Len(item.s) = Len(LoopTarget.items)
    /\ LoopTarget.items[j].tt = "Tuple"
    /\ \A i \in 1..(j - 1) : LoopTarget.items[i].tt = "Name"
    /\ IsIterable(item.s[j])
    /\ Len(item.s[j].s) # Len(LoopTarget.items[j].items)

\* C5: with strict_tuple_unpacking, an iterable value whose number of
\* elements differs from the number of items of the Tuple target fails with
\* ValueError and no item of that target has been assigned, in the
\* interpreter and in the compiled code.
C5_StrictMismatch ==
    [][/\ (InterpIterate /\ Mismatch) =>
              /\ interp'.sig = "ValueError"
              /\ \A n \in TargetNames(LoopTarget) :
                     BoundInState(interp', n) = BoundInState(interp, n)
       /\ (CompiledIterate /\ Mismatch) =>
              /\ rtstate'.sig = "ValueError"
              /\ \A n \in TargetNames(LoopTarget) :
                     BoundInEnv(rtstate', n) = BoundInEnv(rtstate, n)
       /\ \A j \in DOMAIN LoopTarget.items :
              /\ (InterpIterate /\ NestedMismatch(j)) =>
                     /\ interp'.sig = "ValueError"
                     /\ \A n \in TargetNames(LoopTarget.items[j]) :
                            BoundInState(interp', n) = BoundInState(interp, n)
              /\ (CompiledIterate /\ NestedMismatch(j)) =>
                     /\ rtstate'.sig = "ValueError"
                     /\ \A n \in TargetNames(LoopTarget.items[j]) :
                            BoundInEnv(rtstate', n) = BoundInEnv(rtstate, n)]_vars

\* a strict loop met an item of another length than its target, both ways
C5_Witness ==
    /\ pc = "next" /\ iterno = 2
    /\ Mismatch
    /\ interp.sig = "ValueError"
    /\ rtstate.sig = "ValueError"

\* what name i of a flat target of n names is bound to by a value
Expected(i) ==
    IF i <= Len(item.s) THEN item.s[i]
    ELSE undefined_variable(LoopTarget.items[i].name)

Lenient == ~cfg.strict_tuple_unpacking /\ IsIterable(item) /\ IsFlat(LoopTarget)

\* C6: without strict_tuple_unpacking, unpacking k elements into n names
\* never fails, binds the first names to the elements and each remaining
\* name to undefined_variable(name), on every iteration, in the
\* interpreter and in the compiled helper.
C6_LenientFill ==
    /\ (pc = "compiled" /\ Lenient) =>
           /\ interp.sig = "ok"
           /\ \A i \in DOMAIN LoopTarget.items :
                  resolve_var(interp, LoopTarget.items[i].name) = Expected(i)
    /\ (pc = "next" /\ iterno >= 1 /\ Lenient) =>
           /\ rtstate.sig = "ok"
           /\ \A i \in DOMAIN LoopTarget.items :
                  BoundInEnv(rtstate, LoopTarget.items[i].name) = Is(Expected(i))

\* C7: a non-iterable value unpacked into a Tuple target raises TypeError
\* unless allow_noniter_unpacking is set; then no error is raised and every
\* name of the target is bound to undefined_variable(name), whatever
\* strict_tuple_unpacking is, in the interpreter and in the compiled helper.
C7_NonIterable ==
    /\ (pc = "compiled" /\ ~IsIterable(item)) =>
           IF ~cfg.allow_noniter_unpacking THEN interp.sig = "TypeError"
           ELSE /\ interp.sig = "ok"
                /\ \A n \in TargetNames(LoopTarget) :
                       resolve_var(interp, n) = undefined_variable(n)
    /\ (pc = "next" /\ iterno >= 1 /\ ~IsIterable(item)) =>
           IF ~cfg.allow_noniter_unpacking THEN rtstate.sig = "TypeError"
           ELSE /\ rtstate.sig = "ok"
                /\ \A n \in TargetNames(LoopTarget) :
                       BoundInEnv(rtstate, n) = Is(undefined_variable(n))

\* the Include statements of a template, nested ones included
RECURSIVE IncludesIn(_)
IncludesIn(nodes) ==
    IF nodes = <<>> THEN {}
    ELSE (IF Head(nodes).k = "Include" THEN {Head(nodes)} ELSE {})
         \cup IncludesIn(Head(nodes).body) \cup IncludesIn(Head(nodes).else_)
         \cup IncludesIn(Tail(nodes))

\* the template without its Include statements
RECURSIVE WithoutIncludes(_)
WithoutIncludes(nodes) ==
    IF nodes = <<>> THEN <<>>
    ELSE IF Head(nodes).k = "Include" THEN WithoutIncludes(Tail(nodes))
    ELSE <<[Head(nodes) EXCEPT !.body = WithoutIncludes(@),
                               !.else_ = WithoutIncludes(@)]>>
         \o WithoutIncludes(Tail(nodes))

\* the statements of the template up to its Include, which is reached
\* whenever the template renders
BeforeInclude(nodes) ==
    IF nodes = <<>> \/ IncludesIn(<<Head(nodes)>>) # {} THEN <<>>
    ELSE <<Head(nodes)>>

\* the one Include of the template under render
TheInclude == CHOOSE inc \in IncludesIn(template) : TRUE

HasInclude == Cardinality(IncludesIn(template)) = 1

Missing(name) == ~Has(cfg.templates, name)

\* how the render of a loadable template ends when it is rendered by itself
FailureOf(name) ==
    execute(cfg.templates[name], BasicInterpreterState(input, EmptyMap), cfg).sig

CompiledWithout ==
    run_compiled(ast_visit_Template(WithoutIncludes(template), cfg), input,
                 get_exec_namespace(cfg))

InterpretedWithout ==
    execute(WithoutIncludes(template), BasicInterpreterState(input, EmptyMap), cfg)

CompiledBefore ==
    run_compiled(ast_visit_Template(BeforeInclude(template), cfg), input,
                 get_exec_namespace(cfg))

InterpretedBefore ==
    execute(BeforeInclude(template), BasicInterpreterState(input, EmptyMap), cfg)

\* C11 in the interpreter
C11_Interpreter ==
    (pc # "start" /\ HasInclude) =>
        /\ (Missing(TheInclude.name) /\ TheInclude.ignore_missing) =>
               /\ interp.sig = InterpretedWithout.sig
               /\ interp.out = InterpretedWithout.out
        /\ (Missing(TheInclude.name) /\ ~TheInclude.ignore_missing) =>
               /\ interp.sig = "TemplateNotFound"
               /\ interp.out = InterpretedBefore.out
        /\ (~Missing(TheInclude.name) /\ FailureOf(TheInclude.name) # "ok") =>
               interp.sig = FailureOf(TheInclude.name)

\* C11 in the compiled code
C11_Compiled ==
    (pc = "done" /\ HasInclude) =>
        /\ (Missing(TheInclude.name) /\ TheInclude.ignore_missing) =>
               /\ rtstate.sig = CompiledWithout.sig
               /\ rtstate.out = CompiledWithout.out
        /\ (Missing(TheInclude.name) /\ ~TheInclude.ignore_missing) =>
               /\ rtstate.sig = "TemplateNotFound"
               /\ rtstate.out = CompiledBefore.out
        /\ (~Missing(TheInclude.name) /\ FailureOf(TheInclude.name) # "ok") =>
               rtstate.sig = FailureOf(TheInclude.name)

\* C11: an Include with ignore_missing whose own target is not found gives no
\* output and lets the following statements run; without ignore_missing the
\* TemplateNotFound propagates; a failure while the included template
\* renders, a nested include's TemplateNotFound too, propagates in both
\* cases.  This holds of the interpreter and of the compiled code.
C11_IncludeMissing == C11_Interpreter /\ C11_Compiled

HasExtends == \E i \in DOMAIN template : template[i].k = "Extends"

ExtendsAt == CHOOSE i \in DOMAIN template : template[i].k = "Extends"

\* the template up to its Extends, with an Include of the parent in its place
UpToParent ==
    SubSeq(template, 1, ExtendsAt - 1)
    \o <<Include(template[ExtendsAt].name, FALSE)>>

\* the template with its root Include of child.html replaced by the output
\* child.html makes before its Extends and an Include of the template that
\* child.html extends
IncludesChild ==
    \E i \in DOMAIN template :
        template[i].k = "Include" /\ template[i].name = "child.html"

ChildAt ==
    CHOOSE i \in DOMAIN template :
        template[i].k = "Include" /\ template[i].name = "child.html"

ChildReplaced ==
    SubSeq(template, 1, ChildAt - 1)
    \o <<Says(4), Include("leaf.html", FALSE)>>
    \o SubSeq(template, ChildAt + 1, Len(template))

\* C12: once an Extends in a root body has run, all of the parent's output is
\* emitted and no statement after the Extends in the root body of the
\* extending template runs or produces output; the stop ends only the render
\* of that template (a template that includes it goes on) and is not
\* reported as an error.
C12_ExtendsStops ==
    /\ (pc # "start" /\ HasExtends /\ ~Missing(template[ExtendsAt].name)
            /\ FailureOf(template[ExtendsAt].name) = "ok") =>
           /\ interp.sig = "ok"
           /\ interp.out =
                  execute(UpToParent, BasicInterpreterState(input, EmptyMap), cfg).out
    /\ (pc = "done" /\ HasExtends /\ ~Missing(template[ExtendsAt].name)
            /\ FailureOf(template[ExtendsAt].name) = "ok") =>
           /\ rtstate.sig = "ok"
           /\ rtstate.out =
                  run_compiled(ast_visit_Template(UpToParent, cfg), input,
                               get_exec_namespace(cfg)).out
    /\ (pc # "start" /\ IncludesChild) =>
           /\ interp.sig = "ok"
           /\ interp.out =
                  execute(ChildReplaced, BasicInterpreterState(input, EmptyMap), cfg).out
    /\ (pc = "done" /\ IncludesChild) =>
           /\ rtstate.sig = "ok"
           /\ rtstate.out =
                  run_compiled(ast_visit_Template(ChildReplaced, cfg), input,
                               get_exec_namespace(cfg)).out

\* an Extends of leaf.html followed by an Output of 9 has been rendered by
\* both: the parent's output is there, the 9 is not
C12_Witness ==
    /\ pc = "done"
    /\ template = <<AsgA, Extends("leaf.html"), Says(9)>>
    /\ interp.sig = "ok"
    /\ rtstate.sig = "ok"
    /\ interp.out = <<"7", "23">>
    /\ rtstate.out = <<"7", "23">>

\* What Break and Continue mean, stated without them: Cut(nodes) is the
\* statements that run before the first Break or Continue that nodes raises,
\* and the kind of that control ("none": nodes runs to its end).  A For whose
\* body raises Break runs its cut body for the first item only; a For whose
\* body raises Continue runs its cut body for every item; neither raises.
\* An If raises what the branch that is taken raises; a FilterBlock that is
\* left by a control loses the output it buffered.
RECURSIVE Cut(_)
CutFor(node, c) ==
    [node EXCEPT !.body = c.nodes,
                 !.expr = IF c.kind = "Break" /\ Len(node.expr.v.s) > 1
                          THEN Const(ListV(<<node.expr.v.s[1]>>)) ELSE @]

CutStmt(node) ==
    CASE node.k \in {"Break", "Continue"} -> [kind |-> node.k, nodes |-> <<>>]
      [] node.k = "For" ->
             [kind |-> "none", nodes |-> <<CutFor(node, Cut(node.body))>>]
      [] node.k = "If" /\ Truthy(node.expr.v) ->
             [kind |-> Cut(node.body).kind,
              nodes |-> <<[node EXCEPT !.body = Cut(node.body).nodes]>>]
      [] node.k = "If" /\ ~Truthy(node.expr.v) ->
             [kind |-> Cut(node.else_).kind,
              nodes |-> <<[node EXCEPT !.else_ = Cut(node.else_).nodes]>>]
      [] node.k = "Scope" ->
             [kind |-> Cut(node.body).kind,
              nodes |-> <<[node EXCEPT !.body = Cut(node.body).nodes]>>]
      [] node.k = "FilterBlock" ->
             [kind |-> Cut(node.body).kind,
              nodes |-> IF Cut(node.body).kind = "none" THEN <<node>> ELSE <<>>]
      [] OTHER -> [kind |-> "none", nodes |-> <<node>>]

Cut(nodes) ==
    IF nodes = <<>> THEN [kind |-> "none", nodes |-> <<>>]
    ELSE IF CutStmt(Head(nodes)).kind # "none" THEN CutStmt(Head(nodes))
    ELSE [kind |-> Cut(Tail(nodes)).kind,
          nodes |-> CutStmt(Head(nodes)).nodes \o Cut(Tail(nodes)).nodes]

InterpretedCut ==
    execute(Cut(template).nodes, BasicInterpreterState(input, EmptyMap), cfg)

\* the template ends with a top-level Output and the render has left a frame
\* on the context stack: what that Output reads is a matter of scoping, not
\* of which statements ran
ReadAfterLeftFrame ==
    /\ Len(interp.context) > Len(InterpretedCut.context)
    /\ Last(template).k = "Output"

\* C13: in the interpreter a Break ends exactly the nearest enclosing For (the
\* output made so far is kept, enclosing loops go on) and a Continue skips
\* only the rest of the current iteration; a Break or Continue with no
\* enclosing For comes out of Interpreter.execute as an AssertionError.
C13_LoopControls ==
    pc # "start" =>
        /\ WellFormed(template) =>
               /\ interp.sig = "ok"
               /\ interp.forRuns = InterpretedCut.forRuns
               /\ interp.bodyRuns = InterpretedCut.bodyRuns
               /\ interp.elseRuns = InterpretedCut.elseRuns
               /\ ~ReadAfterLeftFrame => interp.out = InterpretedCut.out
        /\ ~WellFormed(template) => interp.sig = "AssertionError"

\* a loop over two items whose body writes the item and then runs an inner
\* loop that breaks at once has been rendered: the inner loop ran once per
\* outer iteration and the outer loop wrote both items
C13_Witness ==
    /\ pc = "interpreted"
    /\ template = <<For(NameT("x"), Const(Items(MaxItems)),
                        <<OutX, For(NameT("x"), Const(Items(MaxItems)),
                                    <<Break>>, <<>>)>>,
                        <<>>)>>
    /\ interp.sig = "ok"
    /\ Len(interp.out) = MaxItems
    /\ interp.out[1] = "1"
    /\ interp.forRuns = 1 + MaxItems
    /\ interp.bodyRuns = 2 * MaxItems

\* the (frame, name) entries of the local_identifiers of the compilation
Bindings ==
    {<<f, n>> \in (DOMAIN tracked.fs.frames) \X CallNames :
        Has(tracked.fs.frames[f].local_identifiers, n)}

IdOf(b) == tracked.fs.frames[b[1]].local_identifiers[b[2]]

\* C14: within one compilation two different (frame, name) entries of
\* local_identifiers never map to the same identifier, and no temporary
\* equals another temporary or a local identifier.
C14_NoCollisions ==
    /\ \A b1, b2 \in Bindings : b1 # b2 => IdOf(b1) # IdOf(b2)
    /\ \A i, j \in DOMAIN tracked.temps :
           i # j => tracked.temps[i] # tracked.temps[j]
    /\ \A i \in DOMAIN tracked.temps, b \in Bindings : tracked.temps[i] # IdOf(b)

\* the frames from f outwards up to and including the nearest hard frame
RECURSIVE WithinHard(_, _)
WithinHard(fs, f) ==
    IF f = 0 THEN {}
    ELSE IF fs.frames[f].scope = "hard" THEN {f}
    ELSE {f} \cup WithinHard(fs, fs.frames[f].parent)

\* f and all the frames above it
RECURSIVE Ancestors(_, _)
Ancestors(fs, f) ==
    IF f = 0 THEN {} ELSE {f} \cup Ancestors(fs, fs.frames[f].parent)

\* the store with the local_identifiers of every frame that is not within
\* the hard boundary of f emptied
Masked(fs, f) ==
    [fs EXCEPT !.frames =
        [g \in DOMAIN fs.frames |->
            IF g \in WithinHard(fs, f) THEN fs.frames[g]
            ELSE [fs.frames[g] EXCEPT !.local_identifiers = EmptyMap]]]

\* name is bound above the hard boundary of f and nowhere within it
BoundOnlyAbove(fs, f, name) ==
    /\ \A g \in WithinHard(fs, f) : ~Has(fs.frames[g].local_identifiers, name)
    /\ \E g \in Ancestors(fs, f) : Has(fs.frames[g].local_identifiers, name)

LoadCalled == called.op = "analyze" /\ called.stmt.k = "Output"

\* C15: tracking or resolving a Name in frame F consults only the
\* local_identifiers of the frames from F up to and including the nearest
\* hard frame: what lookup_name answers and what tracking leaves in F are the
\* same when every other frame's bindings are taken away, and a load of a
\* name bound only above the hard frame gives F a binding of its own to a
\* generated identifier and a requires_lookup entry for it.
C15_HardBoundary ==
    /\ \A f \in DOMAIN tracked.fs.frames, n \in CallNames,
          ctx \in {"load", "store", "param"} :
           lookup_name(tracked.fs, f, n, ctx)
               = lookup_name(Masked(tracked.fs, f), f, n, ctx)
    /\ called.op = "analyze" =>
           /\ tracked.fs.frames[called.f]
                  = analyze_identfiers(Masked(called.before, called.f), called.f,
                                       <<called.stmt>>).frames[called.f]
           /\ tracked.fs.index
                  = analyze_identfiers(Masked(called.before, called.f), called.f,
                                       <<called.stmt>>).index
    /\ (LoadCalled /\ BoundOnlyAbove(called.before, called.f, called.name)) =>
           LET fr == tracked.fs.frames[called.f]
           IN /\ Has(fr.local_identifiers, called.name)
              /\ fr.local_identifiers[called.name] = encode(called.name)
              /\ Has(fr.requires_lookup, encode(called.name))
              /\ fr.requires_lookup[encode(called.name)] = called.name
              /\ called.name \notin fr.from_outer_scope
              /\ fr.required_aliases = called.before.frames[called.f].required_aliases

\* a load of a name has been tracked in a hard frame while only a frame
\* above it bound the name
C15_Witness ==
    /\ LoadCalled
    /\ tracked.fs.frames[called.f].scope = "hard"
    /\ BoundOnlyAbove(called.before, called.f, called.name)
    /\ Has(tracked.fs.frames[called.f].requires_lookup, encode(called.name))

\* the nearest frame within the hard boundary of f that binds name, 0 when
\* there is none
RECURSIVE NearestBinder(_, _, _)
NearestBinder(fs, f, name) ==
    IF f = 0 THEN 0
    ELSE IF Has(fs.frames[f].local_identifiers, name) THEN f
    ELSE IF fs.frames[f].scope = "hard" THEN 0
    ELSE NearestBinder(fs, fs.frames[f].parent, name)

\* the last call tracked a Name(called.name, ctx) in frame called.f
NameCalled(ctx) ==
    CASE ctx = "load"  -> called.op = "analyze" /\ called.stmt.k = "Output"
      [] ctx = "store" -> called.op = "analyze" /\ called.stmt.k = "Assign"
      [] ctx = "param" -> called.op = "special"

\* the name of the last call was bound in a visible frame above called.f
FromOuter ==
    /\ NearestBinder(called.before, called.f, called.name) # 0
    /\ NearestBinder(called.before, called.f, called.name) # called.f

OuterId ==
    called.before.frames[NearestBinder(called.before, called.f, called.name)]
        .local_identifiers[called.name]

OthersUnchanged ==
    \A g \in DOMAIN called.before.frames :
        g # called.f => tracked.fs.frames[g] = called.before.frames[g]

\* C16: a Name bound in a visible ancestor G of F and not yet in F is
\* tracked in F.  Store or param: F gets a new identifier different from G's,
\* required_aliases[new] is G's, local_identifiers[name] is new, a later
\* Name of that name in F resolves to new, and the other frames are
\* unchanged.  Load: F's local_identifiers and required_aliases are
\* unchanged, referenced_identifiers[name] is G's identifier and the name is
\* in from_outer_scope.
C16_OuterNames ==
    LET fr == tracked.fs.frames[called.f]
        was == called.before.frames[called.f]
    IN /\ ((NameCalled("store") \/ NameCalled("param")) /\ FromOuter) =>
              /\ Has(fr.local_identifiers, called.name)
              /\ fr.local_identifiers[called.name] # OuterId
              /\ \A g \in DOMAIN called.before.frames, n \in CallNames :
                     Has(called.before.frames[g].local_identifiers, n) =>
                         called.before.frames[g].local_identifiers[n]
                             # fr.local_identifiers[called.name]
              /\ Has(fr.required_aliases, fr.local_identifiers[called.name])
              /\ fr.required_aliases[fr.local_identifiers[called.name]] = OuterId
              /\ \A ctx \in {"load", "store", "param"} :
                     lookup_name(tracked.fs, called.f, called.name, ctx)
                         = [id |-> fr.local_identifiers[called.name], err |-> "ok"]
              /\ OthersUnchanged
       /\ (NameCalled("load") /\ FromOuter) =>
              /\ fr.local_identifiers = was.local_identifiers
              /\ fr.required_aliases = was.required_aliases
              /\ Has(fr.referenced_identifiers, called.name)
              /\ fr.referenced_identifiers[called.name] = OuterId
              /\ called.name \in fr.from_outer_scope
              /\ OthersUnchanged
       /\ \A f \in DOMAIN tracked.fs.frames, n \in CallNames :
              Has(tracked.fs.frames[f].local_identifiers, n) =>
                  lookup_name(tracked.fs, f, n, "load")
                      = [id |-> tracked.fs.frames[f].local_identifiers[n],
                         err |-> "ok"]
       /\ ((called.op \in {"analyze", "special"})
               /\ Has(was.local_identifiers, called.name)) =>
              /\ fr.local_identifiers[called.name]
                     = was.local_identifiers[called.name]
              /\ fr.referenced_identifiers[called.name]
                     = was.local_identifiers[called.name]

\* an assignment to a name that only the parent frame bound has been tracked
\* in a soft frame, which now holds an alias
C16_Witness ==
    /\ NameCalled("store")
    /\ FromOuter
    /\ tracked.fs.frames[called.f].required_aliases # EmptyMap
    /\ tracked.fs.frames[called.f].local_identifiers[called.name]
           = LocalId(called.name, 1)

\* the name of the last call was bound in no frame visible from called.f
Unbound == NearestBinder(called.before, called.f, called.name) = 0

\* the place of the Name that the last call tracked: the target of the
\* Assign that became the next node of the frame
TrackedNode == <<Len(called.before.frames[called.f].nodes) + 1, 1>>

\* C17: a Name bound in no visible frame is tracked in F: F binds it in
\* local_identifiers to a newly generated identifier.  Load: requires_lookup
\* maps the identifier to the name and unassigned_until[name] is None.
\* Store: no requires_lookup entry, unassigned_until[name] is the tracked
\* node.  Param: no requires_lookup entry, unassigned_until[name] is None.
C17_UnboundNames ==
    LET fr == tracked.fs.frames[called.f]
        was == called.before.frames[called.f]
        id == encode(called.name)
    IN \A ctx \in {"load", "store", "param"} :
           (NameCalled(ctx) /\ Unbound) =>
               /\ Has(fr.local_identifiers, called.name)
               /\ fr.local_identifiers[called.name] = id
               /\ Has(fr.unassigned_until, called.name)
               /\ ctx = "load" =>
                      /\ Has(fr.requires_lookup, id)
                      /\ fr.requires_lookup[id] = called.name
                      /\ fr.unassigned_until[called.name] = FromStart
               /\ ctx = "store" =>
                      /\ fr.requires_lookup = was.requires_lookup
                      /\ ~Has(fr.requires_lookup, id)
                      /\ fr.unassigned_until[called.name] = TrackedNode
               /\ ctx = "param" =>
                      /\ fr.requires_lookup = was.requires_lookup
                      /\ ~Has(fr.requires_lookup, id)
                      /\ fr.unassigned_until[called.name] = FromStart
               /\ fr.required_aliases = was.required_aliases
               /\ called.name \notin fr.from_outer_scope
               /\ tracked.fs.index = called.before.index
               /\ OthersUnchanged

\* a load of a name that no visible frame bound has been tracked in a frame
\* that had tracked another name before
C17_Witness ==
    /\ NameCalled("load")
    /\ Unbound
    /\ called.before.frames[called.f].local_identifiers # EmptyMap
    /\ Has(tracked.fs.frames[called.f].requires_lookup, encode(called.name))

\* C18: over any sequence of analyze_identfiers and add_special_identifier
\* calls, an entry of a frame's local_identifiers is never removed and never
\* changes: every entry there was before a call is there, with the same
\* identifier, after it.
C18_BindingsStable ==
    \A g \in DOMAIN called.before.frames, n \in CallNames :
        Has(called.before.frames[g].local_identifiers, n) =>
            /\ Has(tracked.fs.frames[g].local_identifiers, n)
            /\ tracked.fs.frames[g].local_identifiers[n]
                   = called.before.frames[g].local_identifiers[n]

\* a name that the frame had bound has been assigned again in that frame
C18_Witness ==
    /\ NameCalled("store")
    /\ Has(called.before.frames[called.f].local_identifiers, called.name)
    /\ Has(tracked.fs.frames[called.f].local_identifiers, called.name)

\* node k of frame f assigns name / declares name as a parameter
AssignsAt(f, k, name) ==
    LET node == tracked.fs.frames[f].nodes[k]
    IN "k" \in DOMAIN node /\ node.k = "Assign" /\ node.target = NameT(name)

ParamAt(f, k, name) ==
    LET node == tracked.fs.frames[f].nodes[k]
    IN "k" \notin DOMAIN node /\ node = NameT(name)

\* the first node of frame f that binds name by an assignment or a parameter
FirstBinder(f, name) ==
    CHOOSE k \in DOMAIN tracked.fs.frames[f].nodes :
        /\ AssignsAt(f, k, name) \/ ParamAt(f, k, name)
        /\ \A j \in 1..(k - 1) : ~(AssignsAt(f, j, name) \/ ParamAt(f, j, name))

\* the name is available from the start of frame f: it was loaded unbound
\* there, or the first node that binds it is a parameter
AvailableFromStart(f, name) ==
    \/ Has(tracked.fs.frames[f].requires_lookup, encode(name))
    \/ /\ \E k \in DOMAIN tracked.fs.frames[f].nodes :
              AssignsAt(f, k, name) \/ ParamAt(f, k, name)
       /\ ParamAt(f, FirstBinder(f, name), name)

FirstAssignment(f, name) ==
    CHOOSE k \in DOMAIN tracked.fs.frames[f].nodes :
        /\ AssignsAt(f, k, name)
        /\ \A j \in 1..(k - 1) : ~AssignsAt(f, j, name)

\* C19: after tracking, unassigned_until[name] is None when the name is
\* available from the start of the frame, and otherwise the first node in
\* source order that assigns the name in the frame: a later assignment does
\* not replace it, so var_unassigned(name, ref) is false for every reference
\* node after the first assignment.
C19_FirstAssignment ==
    \A f \in DOMAIN tracked.fs.frames, n \in CallNames :
        Has(tracked.fs.frames[f].unassigned_until, n) =>
            IF AvailableFromStart(f, n)
            THEN tracked.fs.frames[f].unassigned_until[n] = FromStart
            ELSE /\ tracked.fs.frames[f].unassigned_until[n]
                        = <<FirstAssignment(f, n), 1>>
                 /\ \A k \in DOMAIN tracked.fs.frames[f].nodes :
                        k > FirstAssignment(f, n) =>
                            ~var_unassigned(tracked.fs, f, n, <<k>>)

\* C20: iter_vars(reference_node) on a frame F never fails on a tracked
\* frame tree and yields exactly one (name, identifier) pair for every name
\* visible from F, with the identifier of the innermost binding up to the
\* hard boundary, names bound only in ancestor frames included; it leaves out
\* exactly the names whose assignment has not happened at reference_node.
C20_IterVars ==
    \A f \in DOMAIN tracked.fs.frames :
        \A k \in DOMAIN tracked.fs.frames[f].nodes :
            /\ iter_vars(tracked.fs, f, <<k>>).err = "ok"
            /\ \A n \in CallNames :
                   LET yielded == iter_vars(tracked.fs, f, <<k>>).vars
                       g == NearestBinder(tracked.fs, f, n)
                   IN /\ Has(yielded, n) =>
                             /\ g # 0
                             /\ yielded[n] = tracked.fs.frames[g].local_identifiers[n]
                      /\ (g # 0 /\ g # f) => Has(yielded, n)
                      /\ g = f =>
                             (Has(yielded, n)
                                  <=> ~var_unassigned(tracked.fs, f, n, <<k>>))

(***************************************************************************)
(* Properties of the prologue of a frame.                                  *)
(***************************************************************************)
Lowered == pc \in {"transformed", "done"}

\* the frame binds the identifier by an assignment: as an alias, or as the
\* identifier of a name it stores or takes as a parameter
BoundByAssignment(fr, id) ==
    \/ Has(fr.required_aliases, id)
    \/ \E name \in DOMAIN fr.local_identifiers :
           /\ fr.local_identifiers[name] = id
           /\ \/ fr.unassigned_until[name] # FromStart
              \/ ~Has(fr.requires_lookup, id)

StrictAncestors(fs, f) == Ancestors(fs, f) \ {f}

\* C21: iter_required_lookups() of a frame F yields F's own requires_lookup
\* entries and the outer references of its descendants that no frame between
\* has resolved; it never yields an identifier that a frame above F has bound
\* by assignment (store, param or alias), so the prologue of F never
\* overwrites an assigned variable with a lookup in the runtime context.
C21_RequiredLookups ==
    Lowered =>
        \A f \in DOMAIN compiled.fs.frames :
            \A pr \in iter_required_lookups(compiled.fs, f) :
                \A g \in StrictAncestors(compiled.fs, f) :
                    ~BoundByAssignment(compiled.fs.frames[g], pr[1])

\* the generated identifiers an expression of the compiled code reads
RECURSIVE ReadsOf(_)
ReadsOf(e) ==
    (IF e.id # NoId THEN {e.id} ELSE {})
    \cup UNION {ReadsOf(e.args[i]) : i \in DOMAIN e.args}

\* the identifiers a prologue statement reads when it runs: the body of a
\* FunctionDef does not run with the definition
StmtReads(stmt) == IF stmt.op = "Assign" THEN ReadsOf(stmt.value) ELSE {}

StmtAssigns(stmt) ==
    IF stmt.op \in {"Assign", "FunctionDef"} /\ stmt.target.tt = "Name"
    THEN {stmt.target.id} ELSE {}

IsAlias(fr, stmt) ==
    /\ stmt.op = "Assign" /\ stmt.value.x = "Name"
    /\ Has(fr.required_aliases, stmt.target.id)
    /\ fr.required_aliases[stmt.target.id] = stmt.value.id

IsLookup(fs, f, stmt) ==
    /\ stmt.op = "Assign" /\ stmt.value.x = "Call"
    /\ stmt.value.f = "rtstate.lookup_var"
    /\ <<stmt.target.id, stmt.value.args[1].f>> \in iter_required_lookups(fs, f)

\* the prologue is the aliases, then the deferred functions, then the lookups
InOrder(fs, f, before) ==
    LET na == Cardinality(DOMAIN fs.frames[f].required_aliases)
        nl == Cardinality(iter_required_lookups(fs, f))
        nf == Len(inner_function_code(fs.frames[f].inner_functions))
    IN /\ Len(before) = na + nf + nl
       /\ \A i \in 1..na : IsAlias(fs.frames[f], before[i])
       /\ \A id \in DOMAIN fs.frames[f].required_aliases :
              \E i \in 1..na : before[i].target.id = id
       /\ SubSeq(before, na + 1, na + nf)
              = inner_function_code(fs.frames[f].inner_functions)
       /\ \A i \in (na + nf + 1)..Len(before) : IsLookup(fs, f, before[i])
       /\ \A pr \in iter_required_lookups(fs, f) :
              \E i \in (na + nf + 1)..Len(before) : before[i].target.id = pr[1]

\* no statement reads an identifier that only a later statement assigns
NoForwardRead(before) ==
    \A i, j \in DOMAIN before :
        i < j =>
            \A id \in StmtReads(before[i]) \cap StmtAssigns(before[j]) :
                \E k \in 1..(i - 1) : id \in StmtAssigns(before[k])

\* C22: the code inject_scope_code places before the body of a frame is the
\* alias assignments, then the deferred inner function definitions, then the
\* lookups; it precedes the first body statement, and no prologue statement
\* (the defaults of a deferred function included) reads a generated
\* identifier that is first assigned only by a later prologue statement.
C22_PrologueOrder ==
    Lowered =>
        /\ \A f \in DOMAIN compiled.fs.frames :
               /\ InOrder(compiled.fs, f, scope_code_before(compiled.fs, f))
               /\ NoForwardRead(scope_code_before(compiled.fs, f))
        /\ compiled.fs.err = "ok" =>
               SubSeq(compiled.code, 1, Len(scope_code_before(compiled.fs, 1)))
                   = scope_code_before(compiled.fs, 1)

(***************************************************************************)
(* The prologue of an else_ branch.                                        *)
(***************************************************************************)
StartsWith(code, before) ==
    /\ Len(code) >= Len(before)
    /\ SubSeq(code, 1, Len(before)) = before

\* the frames the root derived, in the order of their derivation: for a
\* template whose only compound statement is an If or a For with an else_
\* branch, the frame of the body and the frame of the else_ branch
RootFrames == compiled.fs.frames[1].inner_frames

\* the else_ code starts with the prologue of the else frame, and not with
\* a different, non-empty prologue of the body frame
OwnPrologue(else_code) ==
    /\ StartsWith(else_code, scope_code_before(compiled.fs, RootFrames[2]))
    /\ \/ scope_code_before(compiled.fs, RootFrames[1]) = <<>>
       \/ scope_code_before(compiled.fs, RootFrames[1])
              = scope_code_before(compiled.fs, RootFrames[2])
       \/ ~StartsWith(else_code, scope_code_before(compiled.fs, RootFrames[1]))

\* C23: when an If or a For with an else_ branch is lowered at the root, the
\* emitted else branch starts with the alias assignments and lookups of the
\* else frame and not with those of the frame of the body
C23_ElsePrologue ==
    (Lowered /\ compiled.fs.err = "ok" /\ Len(RootFrames) = 2) =>
        \A i \in DOMAIN compiled.code :
            /\ (compiled.code[i].op = "If" /\ compiled.code[i].orelse # <<>>) =>
                   OwnPrologue(compiled.code[i].orelse)
            /\ compiled.code[i].mark = "loop_else" =>
                   OwnPrologue(compiled.code[i].body)

(***************************************************************************)
(* The outputs of a buffered construct.                                    *)
(***************************************************************************)
\* the code holds, at any depth of its compound statements, a yield of a
\* finalized expression (the yield of write_output, not the dummy yield)
RECURSIVE YieldsOutput(_)
YieldsOutput(code) ==
    \E i \in DOMAIN code :
        \/ /\ code[i].op = "Expr"
           /\ code[i].value.x = "Yield"
           /\ code[i].value.args[1].x = "Call"
           /\ code[i].value.args[1].f = "rtstate.info.finalize"
        \/ /\ code[i].op \in {"If", "For", "Try"}
           /\ YieldsOutput(code[i].body) \/ YieldsOutput(code[i].orelse)

\* the code of the bodies of the buffered constructs of one statement list:
\* what visit_FilterBlock emits between buffer = [] and the write of the
\* filtered buffer, and the body of a FunctionDef
BufferedHere(code) ==
    {SubSeq(code, i + 1, j - 2) : <<i, j>> \in
        {ij \in (DOMAIN code) \X (DOMAIN code) :
            /\ ij[1] < ij[2]
            /\ code[ij[1]].op = "Assign"
            /\ code[ij[1]].value = PyList
            /\ code[ij[1]].target.tt = "Name"
            /\ code[ij[2]] = PyAssign(code[ij[1]].target.id, PyNone)}}
    \cup {code[i].body : i \in {k \in DOMAIN code : code[k].op = "FunctionDef"}}

\* the buffered bodies anywhere in the code
RECURSIVE Buffered(_)
Buffered(code) ==
    BufferedHere(code)
    \cup UNION {Buffered(code[i].body) \cup Buffered(code[i].orelse) :
                   i \in DOMAIN code}

\* C24: in the lowered template no Output that lies inside the body of a
\* FilterBlock or of a Function, at any depth of nested frames, is emitted
\* as a yield
C24_BufferedOutputs ==
    (Lowered /\ compiled.fs.err = "ok") =>
        \A body \in Buffered(compiled.code) : ~YieldsOutput(body)

(***************************************************************************)
(* JavaScriptGenerator (jscompiler.py) on Output, Assign, If and For.  The *)
(* script is kept as statements of the shape the host AST has: a call of   *)
(* w for an output, an If, and for rt.iterate a For whose value is the     *)
(* call with the iterable and the parent, whose target holds the accessor  *)
(* and the loop targets, whose body is the loop function and whose orelse  *)
(* is the else function.  The templates hold no Block and no Extends.      *)
(***************************************************************************)
\* JavaScriptGenerator.visit_Name / visit_Const
js_visit_Expr(fs, f, expr) ==
    IF expr.e = "Const" THEN [fs |-> fs, e |-> PyConst(expr.v)]
    ELSE LET r == lookup_name(fs, f, expr.name, "load")
         IN [fs |-> SetErr(fs, r.err), e |-> PyName(r.id)]

RECURSIVE js_lookup_code(_)
js_lookup_code(pairs) ==
    IF pairs = <<>> THEN <<>>
    ELSE <<PyAssign(Head(pairs)[1],
                    make_call("rts.lookupVar", <<PyStr(Head(pairs)[2])>>))>>
         \o js_lookup_code(Tail(pairs))

RECURSIVE js_var_code(_)
js_var_code(ids) ==
    IF ids = <<>> THEN <<>>
    ELSE <<PyStmt("Var", PyT(Head(ids)), PyNone, <<>>, <<>>, "")>>
         \o js_var_code(Tail(ids))

\* the local identifiers write_scope_code declares without a value
explicit_vars(fs, f) ==
    {fs.frames[f].local_identifiers[n] : n \in DOMAIN fs.frames[f].local_identifiers}
    \ ((DOMAIN fs.frames[f].required_aliases)
       \cup {pr[1] : pr \in iter_required_lookups(fs, f)})

\* JavaScriptGenerator.write_scope_code: the declarations of one var
\* statement: the aliases, the lookups, the remaining local identifiers
js_write_scope_code(fs, f) ==
    alias_code(SetToSeq(alias_pairs(fs.frames[f])))
    \o js_lookup_code(SetToSeq(iter_required_lookups(fs, f)))
    \o js_var_code(SetToSeq(explicit_vars(fs, f)))

\* JavaScriptGenerator.write_assign after the target is resolved
js_assign_result(name, value, f, node) ==
    Res(SetErr(value.fs, name.err),
        <<PyAssign(name.id, value.e)>>
        \o (IF value.fs.frames[f].root
            THEN <<PyExpr(make_call("rts.exportVar",
                                    <<PyStr(node.target.name), PyName(name.id)>>))>>
            ELSE <<>>))

\* JavaScriptGenerator.visit_Assign: write_assign asserts a Name target
js_visit_Assign(fs, f, node) ==
    IF node.target.tt # "Name" THEN Res(SetErr(fs, "AssertionError"), <<>>)
    ELSE js_assign_result(lookup_name(fs, f, node.target.name, "store"),
                          js_visit_Expr(fs, f, node.expr), f, node)

\* JavaScriptGenerator.visit_Output
js_Output_result(e) ==
    Res(e.fs, <<PyExpr(make_call("w", <<make_call("rts.info.finalize", <<e.e>>)>>))>>)

js_visit_Output(fs, f, node) == js_Output_result(js_visit_Expr(fs, f, node.expr))

RECURSIVE js_visit(_, _, _, _)
RECURSIVE js_visit_block(_, _, _, _, _)

js_block_rest(h, f, nodes, i, config) ==
    LET r == js_visit_block(h.fs, f, nodes, i + 1, config)
    IN Res(r.fs, h.code \o r.code)

\* JavaScriptGenerator.visit_block
js_visit_block(fs, f, nodes, i, config) ==
    IF i > Len(nodes) \/ fs.err # "ok" THEN Res(fs, <<>>)
    ELSE js_block_rest(js_visit(fs, f, nodes[i], config), f, nodes, i, config)

\* visit_If, the end: write_scope_code(condition_fstate) also precedes the
\* else_ code
js_If_result(test, body, condition_fstate, else_) ==
    Res(else_.fs,
        <<PyIf(test, body,
               js_write_scope_code(else_.fs, condition_fstate) \o else_.code, "")>>)

js_If_else(test, body, f, node, config) ==
    IF node.else_ = <<>>
    THEN Res(body.fs,
             <<PyIf(test, js_write_scope_code(body.fs, Derived(body.fs)) \o body.code,
                    <<>>, "")>>)
    ELSE js_If_result(test,
                      js_write_scope_code(body.fs, Derived(body.fs)) \o body.code,
                      Derived(body.fs),
                      js_visit_block(derive_analyze(body.fs, f, node.else_),
                                     Len(body.fs.frames) + 1, node.else_, 1, config))

js_If_body(test, f, node, config) ==
    js_If_else(test.e,
               js_visit_block(derive_analyze(test.fs, f, node.body),
                              Len(test.fs.frames) + 1, node.body, 1, config),
               f, node, config)

\* JavaScriptGenerator.visit_If
js_visit_If(fs, f, node, config) ==
    js_If_body(js_visit_Expr(fs, f, node.expr), f, node, config)

\* visit_For, the end: the else function has the declarations of its frame
js_For_else(target, call, body, else_, else_fstate, has_else) ==
    Res(else_.fs,
        <<PyStmt("For", target, call, body,
                 IF has_else
                 THEN js_write_scope_code(else_.fs, else_fstate) \o else_.code
                 ELSE <<>>, "")>>)

\* visit_For after the body is written
js_For_body(hdr, inner, loop_fstate, node, config) ==
    js_For_else(hdr.target, hdr.call,
                js_write_scope_code(inner.fs, loop_fstate) \o inner.code,
                IF node.else_ # <<>>
                THEN js_visit_block(inner.fs, loop_fstate + 1, node.else_, 1, config)
                ELSE Res(inner.fs, <<>>),
                loop_fstate + 1, node.else_ # <<>>)

\* visit_For after the tracking: rt.iterate( iterable, parent, names,
\* function(accessor, targets) { body }, else ): the iterable is visited
\* with loop_fstate, the parent accessor with fstate
js_For_emit(fs, f, node, config) ==
    LET loop_fstate == Derived(fs) - 1
        iter == js_visit_Expr(fs, loop_fstate, node.expr)
        parent == IF config.forloop_parent_access
                  THEN lookup_name(fs, f, forloop_accessor, "load")
                  ELSE [id |-> NoId, err |-> "ok"]
        loop_accessor == lookup_name(fs, loop_fstate, forloop_accessor, "store")
        tgt == ast_visit_Target(fs, loop_fstate, node.target)
        hdr == [target |-> PyTupleT(<<PyT(loop_accessor.id), tgt.t>>),
                call |-> make_call("rt.iterate",
                                   <<iter.e, IF config.forloop_parent_access
                                             THEN PyName(parent.id) ELSE PyNone>>)]
    IN js_For_body(hdr,
                   js_visit_block(SetErr(SetErr(SetErr(tgt.fs, iter.fs.err), parent.err),
                                         loop_accessor.err),
                                  loop_fstate, node.body, 1, config),
                   loop_fstate, node, config)

\* JavaScriptGenerator.visit_For
js_visit_For(fs, f, node, config) ==
    js_For_emit(For_track(fs, f, node, config), f, node, config)

js_visit(fs, f, node, config) ==
    CASE node.k = "Output" -> js_visit_Output(fs, f, node)
      [] node.k = "Assign" -> js_visit_Assign(fs, f, node)
      [] node.k = "If"     -> js_visit_If(fs, f, node, config)
      [] node.k = "For"    -> js_visit_For(fs, f, node, config)

js_Template_result(rv) == Res(rv.fs, js_write_scope_code(rv.fs, 1) \o rv.code)

\* JavaScriptGenerator.visit_Template: the body of the function root
js_visit_Template(body, config) ==
    js_Template_result(js_visit_block(analyze_identfiers(NewStore, 1, body), 1, body,
                                      1, config))

(***************************************************************************)
(* Loops over a name, lowered by both backends.                            *)
(***************************************************************************)
NameIters == {Name("x"), Name("a"), Const(Items(MaxItems))}

NameLoops ==
    {For(NameT("x"), it, b, e) :
        it \in NameIters, b \in Seqs2({OutX, OutA, AsgA}), e \in {<<>>, <<OutA>>}}

AsgX == Assign(NameT("x"), Const(Items(MaxItems)))

LoopTemplates ==
    {pre \o <<l>> : pre \in Seqs1({AsgX}), l \in NameLoops}
    \cup {<<If(t, <<OutX>>, e)>> : t \in Tests, e \in Seqs1({OutA})}

InitJs ==
    /\ template \in LoopTemplates
    /\ input \in Inputs
    /\ cfg \in Configs
    /\ pc = "interpreted"
    /\ interp = BasicInterpreterState(input, EmptyMap)
    /\ compiled = NotCompiled
    /\ rtstate = RuntimeState(input)
    /\ item = NoneV
    /\ iterno = 0
    /\ tracked = NotTracked
    /\ called = NotCalled
    /\ info = NoInfo
    /\ ctxobj = NoContext

\* to_javascript: the script of the template
Generate ==
    /\ pc = "interpreted"
    /\ compiled' = js_visit_Template(template, cfg)
    /\ pc' = "generated"
    /\ UNCHANGED <<template, input, cfg, interp, rtstate, item, iterno,
                   tracked, called, info, ctxobj>>

NextJs == Transform \/ Generate

SpecJs == InitJs /\ [][NextJs]_vars

\* the identifier the root frame holds for a name
RootId(name) == compiled.fs.frames[1].local_identifiers[name]

\* C25: the iterable of a For at the root of the template is resolved in the
\* root frame by either backend: the emitted loop iterates over the
\* identifier the root frame holds for the name, also when the name is the
\* loop target or is assigned in the loop
C25_IterableFrame ==
    (pc \in {"transformed", "generated"} /\ compiled.fs.err = "ok") =>
        \A i \in DOMAIN template :
            (template[i].k = "For" /\ template[i].expr.e = "Name") =>
                \A j \in DOMAIN compiled.code :
                    compiled.code[j].op = "For" =>
                        compiled.code[j].value.args[1]
                            = PyName(RootId(template[i].expr.name))

(***************************************************************************)
(* The frame stack of the interpreter after a render.                      *)
(***************************************************************************)
\* C26: a render that ends without an exception leaves the frame stack of
\* BasicInterpreterState at the depth it had before the first statement,
\* also when a loop body ended through a Break or Continue raised inside a
\* nested If
C26_FrameDepth ==
    (pc # "start" /\ interp.sig = "ok") =>
        Len(interp.context) = Len(BasicInterpreterState(input, EmptyMap).context)

(***************************************************************************)
(* RuntimeInfo.get_template (runtime.py) and its cache.  A template object *)
(* is told from another one of the same name by the number of the load     *)
(* that made it.                                                           *)
(***************************************************************************)
MaxRequests == 4

\* Config.join_path: the template name, whatever the parent is
join_path(parent, template_name) == template_name

\* CustomConfig.get_template of make_inheritance_config: a new template
\* object at every call, or TemplateNotFound
config_get_template(config, name, serial) ==
    IF Has(config.templates, name)
    THEN [sig |-> "ok", v |-> Value("template", serial, <<>>, name, <<>>, "ok")]
    ELSE [sig |-> "TemplateNotFound", v |-> NoneV]

\* get_template after the load
get_template_loaded(inf, name, rv) ==
    IF rv.sig # "ok"
    THEN [inf EXCEPT !.loads = Append(@, name), !.returned = NoneV, !.sig = rv.sig]
    ELSE [inf EXCEPT !.loads = Append(@, name),
                     !.template_cache = Put(@, name, rv.v),
                     !.returned = rv.v, !.sig = "ok"]

\* get_template after the name is joined
get_template_joined(inf, config, name) ==
    IF Has(inf.template_cache, name)
    THEN [inf EXCEPT !.returned = inf.template_cache[name], !.sig = "ok"]
    ELSE get_template_loaded(inf, name,
                             config_get_template(config, name, Len(inf.loads) + 1))

\* a get_template that does not look into the cache
get_template_always_loads(inf, config, template_name) ==
    get_template_loaded([inf EXCEPT !.requests =
                            Append(@, join_path(inf.template_name, template_name))],
                        join_path(inf.template_name, template_name),
                        config_get_template(config,
                                            join_path(inf.template_name, template_name),
                                            Len(inf.loads) + 1))

\* RuntimeInfo.get_template
RuntimeInfo_get_template(inf, config, template_name) ==
    get_template_joined([inf EXCEPT !.requests =
                            Append(@, join_path(inf.template_name, template_name))],
                        config, join_path(inf.template_name, template_name))

InitCache ==
    /\ template = <<>>
    /\ input = EmptyMap
    /\ cfg = make_inheritance_config(Library)
    /\ pc = "start"
    /\ interp = BasicInterpreterState(input, EmptyMap)
    /\ compiled = NotCompiled
    /\ rtstate = RuntimeState(input)
    /\ item = NoneV
    /\ iterno = 0
    /\ tracked = NotTracked
    /\ called = NotCalled
    /\ info \in {RuntimeInfo(n) : n \in {"", "child.html"}}
    /\ ctxobj = NoContext

\* one call of info.get_template
GetTemplate ==
    /\ Len(info.requests) < MaxRequests
    /\ \E name \in TemplateNames :
           info' = RuntimeInfo_get_template(info, cfg, name)
    /\ UNCHANGED <<template, input, cfg, pc, interp, compiled, rtstate, item,
                   iterno, tracked, called, ctxobj>>

NextCache == GetTemplate

SpecCache == InitCache /\ [][NextCache]_vars

\* the calls of config.get_template for a name
LoadsOf(name) == {i \in DOMAIN info.loads : info.loads[i] = name}

RequestsOf(name) == {i \in DOMAIN info.requests : info.requests[i] = name}

\* C27: a template the configuration can load is loaded at most once per
\* joined name, the cache holds for it the object of that load and nothing
\* for a name whose load failed, and a request that succeeds returns the
\* cached object
C27_LoadedOnce ==
    /\ \A name \in DOMAIN cfg.templates :
           /\ Cardinality(LoadsOf(name)) <= 1
           /\ RequestsOf(name) # {} =>
                  /\ Cardinality(LoadsOf(name)) = 1
                  /\ Has(info.template_cache, name)
                  /\ \A i \in LoadsOf(name) :
                         info.template_cache[name]
                             = Value("template", i, <<>>, name, <<>>, "ok")
    /\ DOMAIN info.template_cache
           = {info.loads[i] : i \in DOMAIN info.loads} \cap DOMAIN cfg.templates
    /\ (info.requests # <<>> /\ info.sig = "ok") =>
           info.returned = info.template_cache[info.requests[Len(info.requests)]]
    /\ (info.requests # <<>> /\ info.sig # "ok") =>
           ~Has(info.template_cache, info.requests[Len(info.requests)])

\* a template was requested again after it was loaded, and a request for a
\* missing template failed twice
C27_Witness ==
    /\ \E name \in DOMAIN cfg.templates : Cardinality(RequestsOf(name)) >= 2
    /\ Cardinality(LoadsOf("missing.html")) >= 2

(***************************************************************************)
(* Context (context.py): push, pop and item assignment.                    *)
(***************************************************************************)
MaxDepth == 3

ContextKeys == {"a", "b"}

ContextValues == {IntV(1), IntV(2)}

\* Context.push: self._needs_push = True, which counts as 1
Context_push(c) == [c EXCEPT !.needs_push = 1]

\* Context.pop: list.pop raises an IndexError on the empty list
Context_pop(c) ==
    IF c.needs_push > 0 THEN [c EXCEPT !.needs_push = @ - 1]
    ELSE IF c.stacked = <<>> THEN [c EXCEPT !.sig = "IndexError"]
    ELSE [c EXCEPT !.variables = c.stacked[Len(c.stacked)],
                   !.stacked = Front(@)]

\* Context.__setitem__: one copy of the mapping is stacked for every
\* pending push, then the item is stored
Context_setitem(c, key, value) ==
    [c EXCEPT !.stacked = @ \o [i \in 1..c.needs_push |-> c.variables],
              !.needs_push = 0,
              !.variables = Put(@, key, value)]

InitContext ==
    /\ template = <<>>
    /\ input = EmptyMap
    /\ cfg \in Configs
    /\ pc = "start"
    /\ interp = BasicInterpreterState(input, EmptyMap)
    /\ compiled = NotCompiled
    /\ rtstate = RuntimeState(input)
    /\ item = NoneV
    /\ iterno = 0
    /\ tracked = NotTracked
    /\ called = NotCalled
    /\ info = NoInfo
    /\ ctxobj = Context

\* context.push()
Push ==
    /\ ctxobj.sig = "ok"
    /\ Len(ctxobj.pushed) < MaxDepth
    /\ ctxobj' = [Context_push(ctxobj) EXCEPT !.pushed = Append(@, ctxobj.variables)]
    /\ UNCHANGED <<template, input, cfg, pc, interp, compiled, rtstate, item,
                   iterno, tracked, called, info>>

\* context.pop(), when a push is open
Pop ==
    /\ ctxobj.sig = "ok"
    /\ ctxobj.pushed # <<>>
    /\ ctxobj' = [Context_pop(ctxobj) EXCEPT !.pushed = Front(@)]
    /\ UNCHANGED <<template, input, cfg, pc, interp, compiled, rtstate, item,
                   iterno, tracked, called, info>>

\* context[key] = value
SetItem ==
    /\ ctxobj.sig = "ok"
    /\ \E key \in ContextKeys, value \in ContextValues :
           ctxobj' = Context_setitem(ctxobj, key, value)
    /\ UNCHANGED <<template, input, cfg, pc, interp, compiled, rtstate, item,
                   iterno, tracked, called, info>>

NextContext == Push \/ Pop \/ SetItem

SpecContext == InitContext /\ [][NextContext]_vars

\* C28: every pop that has a matching push succeeds and restores the
\* mapping that held at that push
C28_PopRestores ==
    [][Len(ctxobj'.pushed) < Len(ctxobj.pushed) =>
           /\ ctxobj'.sig = "ok"
           /\ ctxobj'.variables = ctxobj.pushed[Len(ctxobj.pushed)]]_vars

(***************************************************************************)
(* RuntimeInfo.clone and register_block (runtime.py): the dictionaries of  *)
(* the original and of the clone, and the lists they name.                 *)
(***************************************************************************)
CloneExecutors == {<<Says(3)>>, <<Says(4)>>}

\* RuntimeInfo.register_block on the object whose dictionary is executers:
\* setdefault(name, []).append(executor)
RuntimeInfo_register_block(lists, executers, name, executor) ==
    IF Has(executers, name)
    THEN [lists |-> [lists EXCEPT ![executers[name]] = Append(@, executor)],
          executers |-> executers]
    ELSE [lists |-> Append(lists, <<executor>>),
          executers |-> Put(executers, name, Len(lists) + 1)]

\* RuntimeInfo.clone: rv.block_executers = dict(rv.block_executers), a new
\* dictionary that names the same lists
RuntimeInfo_clone(inf) ==
    [inf EXCEPT !.has_clone = TRUE,
                !.cloned = [name \in DOMAIN inf.block_executers |->
                               inf.block_executers[name]]]

\* block_executers[name] as evaluate_block reads it: the list, or no entry
ChainOf(lists, executers, name) ==
    IF Has(executers, name) THEN <<lists[executers[name]]>> ELSE <<>>

InitClone ==
    /\ template = <<>>
    /\ input = EmptyMap
    /\ cfg \in Configs
    /\ pc = "start"
    /\ interp = BasicInterpreterState(input, EmptyMap)
    /\ compiled = NotCompiled
    /\ rtstate = RuntimeState(input)
    /\ item = NoneV
    /\ iterno = 0
    /\ tracked = NotTracked
    /\ called = NotCalled
    /\ info = RuntimeInfo("")
    /\ ctxobj = NoContext

\* info.register_block(name, executor)
RegisterOnOriginal ==
    /\ \E name \in BlockNames, e \in CloneExecutors :
           /\ Len(info.lists) < MaxChain
           /\ \A k \in DOMAIN info.lists : Len(info.lists[k]) < MaxChain
           /\ info' = [info EXCEPT
                  !.lists = RuntimeInfo_register_block(info.lists, info.block_executers,
                                                       name, e).lists,
                  !.block_executers =
                      RuntimeInfo_register_block(info.lists, info.block_executers,
                                                 name, e).executers]
    /\ UNCHANGED <<template, input, cfg, pc, interp, compiled, rtstate, item,
                   iterno, tracked, called, ctxobj>>

\* c = info.clone()
Clone ==
    /\ ~info.has_clone
    /\ info' = RuntimeInfo_clone(info)
    /\ UNCHANGED <<template, input, cfg, pc, interp, compiled, rtstate, item,
                   iterno, tracked, called, ctxobj>>

\* c.register_block(name, executor)
RegisterOnClone ==
    /\ info.has_clone
    /\ \E name \in BlockNames, e \in CloneExecutors :
           /\ Len(info.lists) < MaxChain
           /\ \A k \in DOMAIN info.lists : Len(info.lists[k]) < MaxChain
           /\ info' = [info EXCEPT
                  !.lists = RuntimeInfo_register_block(info.lists, info.cloned,
                                                       name, e).lists,
                  !.cloned = RuntimeInfo_register_block(info.lists, info.cloned,
                                                        name, e).executers]
    /\ UNCHANGED <<template, input, cfg, pc, interp, compiled, rtstate, item,
                   iterno, tracked, called, ctxobj>>

NextClone == RegisterOnOriginal \/ Clone \/ RegisterOnClone

SpecClone == InitClone /\ [][NextClone]_vars

\* C29: a register_block on the clone leaves the chain of every name of the
\* original as it was, and a register_block on the original, once there is
\* a clone, leaves the chain of every name of the clone as it was
C29_CloneIndependent ==
    [][/\ RegisterOnClone =>
              \A name \in BlockNames :
                  ChainOf(info'.lists, info'.block_executers, name)
                      = ChainOf(info.lists, info.block_executers, name)
       /\ (RegisterOnOriginal /\ info.has_clone) =>
              \A name \in BlockNames :
                  ChainOf(info'.lists, info'.cloned, name)
                      = ChainOf(info.lists, info.cloned, name)]_vars

(***************************************************************************)
(* The mapping supplied by the caller of the interpreter.                  *)
(***************************************************************************)

\* the keys some frame of the state binds, and one that none binds
BoundKeys(st) == UNION {DOMAIN st.context[i] : i \in DOMAIN st.context}

\* the frames of the state that bind the key
BindingFrames(st, key) == {i \in DOMAIN st.context : Has(st.context[i], key)}

\* the innermost of a non-empty set of frames
Innermost(S) == CHOOSE i \in S : \A j \in S : j <= i

\* C30: after a template was interpreted, whether the render ended or
\* raised, the bottom frame of the state is the mapping the caller supplied,
\* unchanged, below at least the frame the constructor pushed (pops never
\* outnumber pushes), and resolve_var gives for every key the value of the
\* innermost frame that binds it, or undefined_variable(key) when none does
C30_SuppliedMappingOnlyRead ==
    pc # "start" =>
        /\ Len(interp.context) >= 2
        /\ interp.context[1] = input
        /\ \A key \in BoundKeys(interp) \cup {"a", "unbound"} :
               resolve_var(interp, key)
                   = IF BindingFrames(interp, key) = {}
                     THEN undefined_variable(key)
                     ELSE interp.context[Innermost(BindingFrames(interp, key))][key]

\* a finished render that assigned a name the supplied mapping binds too:
\* the new value is in a pushed frame and is what resolve_var gives
C30_Witness ==
    /\ pc # "start"
    /\ interp.sig = "ok"
    /\ Has(input, "a")
    /\ \E i \in 2..Len(interp.context) :
          /\ Has(interp.context[i], "a")
          /\ interp.context[i]["a"] # input["a"]
    /\ resolve_var(interp, "a") # input["a"]
    /\ ~Has(interp.context[1], "unbound")
    /\ resolve_var(interp, "unbound") = undefined_variable("unbound")

====
